---- MODULE Spec2Model ----
(***************************************************************************)
(* A model of the assistant backend's action dispatcher                    *)
(* (app/agent/action_executor.py) and of the meeting scheduler             *)
(* (app/agent/meeting_scheduler.py).                                       *)
(*                                                                         *)
(* Conventions.  A Python str is a sequence of one-character strings.      *)
(* Python None is NoneStr where a str is expected and NoneInt where a      *)
(* number, an id or a datetime is expected.  A datetime is a natural       *)
(* number of clock ticks; DayLen ticks make one local calendar day.  A     *)
(* date string of a payload is the instant it denotes, or Malformed.  A    *)
(* dict is a record whose DOMAIN is the set of its keys.  A JSON value     *)
(* carries its shape in the field `shape`: an object has it beside its     *)
(* keys, an array holds its elements in `items`.  An exception is a        *)
(* field `raised` of the value a handler body yields; the try/except of    *)
(* the handler turns it into a result.                                     *)
(***************************************************************************)
EXTENDS Integers, Sequences, FiniteSets, Bags, TLC

VARIABLES now, tasks, shopping, events, actions, jobs, scheduled_reminders,
          started, nextGid, SMTP_USER, last, running, inflight, reminded

vars == <<now, tasks, shopping, events, actions, jobs, scheduled_reminders,
          started, nextGid, SMTP_USER, last, running, inflight, reminded>>

(***************************************************************************)
(* Bounds of the model.                                                    *)
(***************************************************************************)
MaxTasks == 2
MaxItems == 2
MaxEvents == 2
MaxActions == 2
MaxTime == 2
MaxBatch == 2
MaxRows == 2
MaxRemote == 2
MaxDispatchRows == 1

DayLen == 2

NoneInt == -100
Malformed == -101
NoneStr == <<"<None>">>

Truthy(x) == x # NoneStr /\ x # <<>>
TruthyInt(x) == x # NoneInt /\ x # 0

Get(d, k, default) == IF k \in DOMAIN d THEN d[k] ELSE default

(***************************************************************************)
(* Strings.                                                                *)
(***************************************************************************)
UpperChars == <<"A", "D", "E", "L", "M", "P", "R", "T", "U">>
LowerChars == <<"a", "d", "e", "l", "m", "p", "r", "t", "u">>

LowerChar(c) ==
    IF \E i \in DOMAIN UpperChars : UpperChars[i] = c
    THEN LowerChars[CHOOSE i \in DOMAIN UpperChars : UpperChars[i] = c]
    ELSE c

Lower(s) == [i \in DOMAIN s |-> LowerChar(s[i])]

RECURSIVE LStrip(_)
LStrip(s) == IF s # <<>> /\ Head(s) = " " THEN LStrip(Tail(s)) ELSE s

RECURSIVE RStrip(_)
RStrip(s) ==
    IF s # <<>> /\ s[Len(s)] = " " THEN RStrip(SubSeq(s, 1, Len(s) - 1)) ELSE s

Strip(s) == RStrip(LStrip(s))

EndsWith(s, suffix) ==
    /\ Len(s) >= Len(suffix)
    /\ SubSeq(s, Len(s) - Len(suffix) + 1, Len(s)) = suffix

Suffixes ==
    << <<"u", "r", "i", "l", "e">>, <<"e", "l", "e">>, <<"u", "l", "e">>,
       <<"u", "l">>, <<"l", "e">>, <<"i", "i">>, <<"a">> >>

Strippable(s, suffix) == EndsWith(s, suffix) /\ Len(s) > Len(suffix) + 2

(* a normalization that goes through the whole list: the last suffix that *)
(* fits is the one stripped                                                *)
NormalizeLast(name) ==
    LET s == Strip(Lower(name))
        hits == {i \in DOMAIN Suffixes : Strippable(s, Suffixes[i])}
    IN  IF hits = {} THEN s
        ELSE LET i == CHOOSE j \in hits : \A k \in hits : j >= k
             IN  SubSeq(s, 1, Len(s) - Len(Suffixes[i]))

(* for suffix in [...]: if endswith and long enough: strip, break *)
NormalizeTerm(name) ==
    LET s == Strip(Lower(name))
        hits == {i \in DOMAIN Suffixes : Strippable(s, Suffixes[i])}
    IN  IF hits = {} THEN s
        ELSE LET i == CHOOSE j \in hits : \A k \in hits : j <= k
             IN  SubSeq(s, 1, Len(s) - Len(Suffixes[i]))

(* SQL LIKE, case-insensitive: % matches any run, _ any one character. *)
RECURSIVE LikeMatch(_, _)
LikeMatch(p, s) ==
    IF p = <<>> THEN s = <<>>
    ELSE IF Head(p) = "%"
         THEN LikeMatch(Tail(p), s) \/ (s # <<>> /\ LikeMatch(p, Tail(s)))
         ELSE /\ s # <<>>
              /\ (Head(p) = "_" \/ LowerChar(Head(p)) = LowerChar(Head(s)))
              /\ LikeMatch(Tail(p), Tail(s))

(* column.ilike(f"%{term}%") *)
ILikeContains(value, term) == LikeMatch(<<"%">> \o term \o <<"%">>, value)

(* term occurs in value, letter case ignored *)
IsSubstringCI(term, value) ==
    \E i \in 0..(Len(value) - Len(term)) :
        Lower(SubSeq(value, i + 1, i + Len(term))) = Lower(term)

(***************************************************************************)
(* The store.  A table is a set of rows with distinct ids; a new row gets  *)
(* the next rowid.                                                         *)
(***************************************************************************)
Ids(table) == {r.id : r \in table}

MaxOf(S) == CHOOSE m \in S : \A x \in S : x <= m

NextId(table) == IF table = {} THEN 1 ELSE MaxOf(Ids(table)) + 1

(* the rows of a batch get consecutive ids in the order they were added *)
RECURSIVE Insert(_, _)
Insert(table, pending) ==
    IF pending = <<>> THEN table
    ELSE Insert(table \cup {[Head(pending) EXCEPT !.id = NextId(table)]},
                Tail(pending))

(* A sequence listing every row of a set once, in the order a query with   *)
(* no ORDER BY happens to produce; the rowid order is used.                *)
RECURSIVE ById(_)
ById(rows) ==
    IF rows = {} THEN <<>>
    ELSE LET r == CHOOSE x \in rows : \A y \in rows : x.id <= y.id
         IN  <<r>> \o ById(rows \ {r})

_parse_date(s) == IF s = Malformed THEN NoneInt ELSE s

(* action_data or {} *)
EmptyObject == [shape |-> "object"]

IsArray(data) == data.shape = "array"
IsObject(data) == data.shape = "object"

(* bool(data): None, {} and [] are false *)
TruthyData(data) ==
    CASE data.shape = "null" -> FALSE
      [] data.shape = "array" -> data.items # <<>>
      [] data.shape = "object" -> DOMAIN data # {"shape"}
      [] OTHER -> TRUE

PayloadOrEmpty(data) == IF TruthyData(data) THEN data ELSE EmptyObject

Failure(msg) == [success |-> FALSE, error |-> msg]


(***************************************************************************)
(* One call of a handler.  `committed` is what the database holds,         *)
(* `working` what the session shows (the database plus the writes not yet  *)
(* committed), `calls` the collaborator calls made so far.                 *)
(***************************************************************************)
Store == [tasks |-> tasks, shopping |-> shopping, events |-> events,
          actions |-> actions]

NoResult == [success |-> FALSE]

Begin ==
    [committed |-> Store, working |-> Store, commits |-> 0,
     raised |-> FALSE, error |-> "", result |-> Failure(""),
     calls |-> <<>>, sent |-> <<>>, inner |-> NoResult,
     jobs |-> jobs, scheduled_reminders |-> scheduled_reminders,
     started |-> started, running |-> running, nextGid |-> nextGid,
     clock |-> now, reads |-> <<>>]

(* a call of a collaborator, of the job scheduler or a successful commit *)
Call(b, c) == [b EXCEPT !.calls = Append(@, c)]

(* datetime.now() / datetime.utcnow(): the clock has advanced by d since   *)
(* the handler last looked at it                                           *)
ReadClock(b, d) ==
    [b EXCEPT !.clock = @ + d, !.reads = Append(@, b.clock + d)]

LastRead(b) == b.reads[Len(b.reads)]

Raise(b, msg) == [b EXCEPT !.raised = TRUE, !.error = msg]

Return(b, r) == [b EXCEPT !.result = r]

(* a NOT NULL column holding None fails the flush *)
Flushable(s) ==
    /\ \A r \in s.tasks : r.title # NoneStr
    /\ \A r \in s.shopping : r.name # NoneStr
    /\ \A r \in s.events :
          r.title # NoneStr /\ r.start_time # NoneInt /\ r.end_time # NoneInt

(* db.commit(): all the pending writes reach the database, or none does *)
Commit(b, fails) ==
    IF fails THEN Raise(b, "OperationalError")
    ELSE IF ~Flushable(b.working) THEN Raise(b, "IntegrityError")
    ELSE [Call(b, "db.commit") EXCEPT !.committed = b.working,
                                      !.commits = b.commits + 1]

(* db.rollback() *)
Rollback(b) == [b EXCEPT !.working = b.committed]

(* except Exception as e: db.rollback(); return {success: False, error} *)
CatchRollback(b) ==
    IF b.raised
    THEN [Rollback(b) EXCEPT !.raised = FALSE, !.result = Failure(b.error)]
    ELSE b

(* return r unless something was raised on the way *)
Finish(b, r) == IF b.raised THEN b ELSE Return(b, r)

(* a handler with no except clause *)
Uncaught(b) == b

(* except Exception as e: return {success: False, error} *)
Catch(b) ==
    IF b.raised
    THEN [b EXCEPT !.raised = FALSE, !.result = Failure(b.error)]
    ELSE b

(***************************************************************************)
(* Task handlers.                                                          *)
(***************************************************************************)
DefaultTaskTitle == <<"T", "a", "s", "k", "0">>
DefaultTaskName == <<"T", "a", "s", "k">>

HasDate(o, k) == Get(o, k, NoneInt) # NoneInt

(* Task(title=..., due_date=..., category=...) *)
NewTask(o) ==
    [id |-> 0,
     title |-> Get(o, "title", DefaultTaskTitle),
     due_date |-> IF HasDate(o, "due_date") THEN _parse_date(o.due_date)
                  ELSE NoneInt,
     is_completed |-> FALSE,
     category |-> Get(o, "category", NoneStr)]

(* the for loop of the batch branch: db.add for each element, up to the    *)
(* first element whose .get raises                                         *)
(* a loop that commits each task as it is added *)
RECURSIVE AddAllTasksCommitEach(_, _)
AddAllTasksCommitEach(b, elems) ==
    IF elems = <<>> THEN b
    ELSE IF ~IsObject(Head(elems)) THEN Raise(b, "AttributeError")
    ELSE LET b1 == [b EXCEPT !.working.tasks =
                       Insert(b.working.tasks, <<NewTask(Head(elems))>>)]
             b2 == Commit(b1, FALSE)
         IN  IF b2.raised THEN b2 ELSE AddAllTasksCommitEach(b2, Tail(elems))

RECURSIVE AddAllTasks(_, _)
AddAllTasks(b, elems) ==
    IF elems = <<>> THEN b
    ELSE IF ~IsObject(Head(elems)) THEN Raise(b, "AttributeError")
    ELSE AddAllTasks(
            [b EXCEPT !.working.tasks =
                Insert(b.working.tasks, <<NewTask(Head(elems))>>)],
            Tail(elems))

RECURSIVE TaskNames(_)
TaskNames(elems) ==
    IF elems = <<>> THEN <<>>
    ELSE <<Get(Head(elems), "title", DefaultTaskName)>> \o TaskNames(Tail(elems))

(* db.query(Task).filter(Task.is_completed == False).all() *)
ActiveTasks(s) == {r \in s.tasks : ~r.is_completed}

Titles(rows) == [i \in DOMAIN rows |-> rows[i].title]

(* a full list that forgets the is_completed filter *)
AllTaskTitlesUnfiltered(b) == Titles(ById(b.working.tasks))

AllTaskTitles(b) == Titles(ById(ActiveTasks(b.working)))

AddTaskBatch(elems, env) ==
    LET b1 == AddAllTasks(Begin, elems)
        b2 == IF b1.raised THEN b1 ELSE Commit(b1, env.failAt = "commit")
    IN  IF b2.raised THEN b2
        ELSE IF env.failAt = "query" THEN Raise(b2, "OperationalError")
        ELSE Return(b2,
                [success |-> TRUE, action |-> "add_task",
                 count |-> Len(elems), message |-> TaskNames(elems),
                 full_list |-> AllTaskTitles(b2),
                 total_tasks |-> Len(AllTaskTitles(b2))])

AddTaskSingle(o, env) ==
    LET id == NextId(Begin.working.tasks)
        b1 == [Begin EXCEPT !.working.tasks =
                  Insert(Begin.working.tasks, <<NewTask(o)>>)]
        b2 == Commit(b1, env.failAt = "commit")
    IN  IF b2.raised THEN b2
        ELSE IF env.failAt = "query" THEN Raise(b2, "OperationalError")
        ELSE Return(b2,
                [success |-> TRUE, action |-> "add_task", task_id |-> id,
                 message |-> <<Get(o, "title", DefaultTaskTitle)>>,
                 full_list |-> AllTaskTitles(b2),
                 total_tasks |-> Len(AllTaskTitles(b2))])

_add_task(data, env) ==
    CatchRollback(IF IsArray(data) THEN AddTaskBatch(data.items, env)
                  ELSE AddTaskSingle(data, env))


RECURSIVE Perms(_)
Perms(S) ==
    IF S = {} THEN {<<>>}
    ELSE UNION {{<<x>> \o p : p \in Perms(S \ {x})} : x \in S}

(* ORDER BY due_date ASC NULLS FIRST: a row with no due date sorts before  *)
(* every dated row; rows with equal keys come in any order                 *)
(* a query with no ORDER BY *)
DueUnordered(r1, r2) == TRUE

DueNullsFirst(r1, r2) ==
    \/ r1.due_date = NoneInt
    \/ (r2.due_date # NoneInt /\ r1.due_date <= r2.due_date)

OrderedBy(rows, Precedes(_, _)) ==
    {p \in Perms(rows) :
        \A i, j \in DOMAIN p : i < j => Precedes(p[i], p[j])}

(* .first() of a query with no ORDER BY: whichever matching row the        *)
(* database yields first; `k` picks it                                     *)
NoRow == [id |-> 0]
First(rows, k) ==
    IF rows = {} THEN NoRow
    ELSE ById(rows)[((k - 1) % Cardinality(rows)) + 1]

DayStart(t) == (t \div DayLen) * DayLen

(* the query of _list_tasks *)
ListTasksQuery(data) ==
    {r \in tasks :
        /\ ~r.is_completed
        /\ Truthy(Get(data, "category", NoneStr)) => r.category = data.category
        /\ Get(data, "today", FALSE) =>
              /\ r.due_date # NoneInt
              /\ r.due_date >= DayStart(now)
              /\ r.due_date < DayStart(now) + DayLen}

TaskOrder(data) == OrderedBy(ListTasksQuery(data), DueNullsFirst)

ListTasksBody(data, env) ==
    IF ~IsObject(data) THEN Raise(Begin, "AttributeError")
    ELSE IF env.failAt = "query" THEN Raise(Begin, "OperationalError")
    ELSE Return(Begin,
            [success |-> TRUE, action |-> "list_tasks",
             count |-> Len(env.rows), tasks |-> env.rows])

_list_tasks(data, env) == Catch(ListTasksBody(data, env))

(* the lookup shared by _complete_task and _delete_task *)
FindTask(data, env) ==
    IF TruthyInt(Get(data, "task_id", NoneInt))
    THEN First({r \in tasks : r.id = data.task_id}, env.first)
    ELSE IF Truthy(Get(data, "task_title", NoneStr))
    THEN First({r \in tasks : ILikeContains(r.title, data.task_title)},
               env.first)
    ELSE NoRow

TaskNotFound == "Task-ul nu a fost gasit."

CompleteTaskBody(data, env) ==
    IF ~IsObject(data) THEN Raise(Begin, "AttributeError")
    ELSE IF env.failAt = "query" THEN Raise(Begin, "OperationalError")
    ELSE LET task == FindTask(data, env)
         IN  IF task.id = 0 THEN Return(Begin, Failure(TaskNotFound))
             ELSE LET b1 == [Begin EXCEPT !.working.tasks =
                                (@ \ {task}) \cup
                                {[task EXCEPT !.is_completed = TRUE]}]
                      b2 == Commit(b1, env.failAt = "commit")
                  IN  IF b2.raised THEN b2
                      ELSE Return(b2,
                              [success |-> TRUE, action |-> "complete_task",
                               message |-> <<task.title>>])

_complete_task(data, env) == CatchRollback(CompleteTaskBody(data, env))

DeleteTaskBody(data, env) ==
    IF ~IsObject(data) THEN Raise(Begin, "AttributeError")
    ELSE IF env.failAt = "query" THEN Raise(Begin, "OperationalError")
    ELSE LET task == FindTask(data, env)
         IN  IF task.id = 0 THEN Return(Begin, Failure(TaskNotFound))
             ELSE LET b1 == [Begin EXCEPT !.working.tasks = @ \ {task}]
                      b2 == Commit(b1, env.failAt = "commit")
                  IN  IF b2.raised THEN b2
                      ELSE Return(b2,
                              [success |-> TRUE, action |-> "delete_task",
                               message |-> <<task.title>>])

_delete_task(data, env) == CatchRollback(DeleteTaskBody(data, env))


(***************************************************************************)
(* Shopping handlers.                                                      *)
(***************************************************************************)
DefaultItemName == <<"I", "t", "e", "m">>

(* ShoppingItem(name=..., category=...) *)
NewItem(o) ==
    [id |-> 0,
     name |-> Get(o, "name", DefaultItemName),
     is_purchased |-> FALSE,
     category |-> Get(o, "category", NoneStr)]

RECURSIVE AddAllItems(_, _)
AddAllItems(b, elems) ==
    IF elems = <<>> THEN b
    ELSE IF ~IsObject(Head(elems)) THEN Raise(b, "AttributeError")
    ELSE AddAllItems(
            [b EXCEPT !.working.shopping =
                Insert(b.working.shopping, <<NewItem(Head(elems))>>)],
            Tail(elems))

RECURSIVE ItemNames(_)
ItemNames(elems) ==
    IF elems = <<>> THEN <<>>
    ELSE <<Get(Head(elems), "name", DefaultItemName)>> \o ItemNames(Tail(elems))

(* db.query(ShoppingItem).filter(ShoppingItem.is_purchased == False).all() *)
ActiveItems(s) == {r \in s.shopping : ~r.is_purchased}

Names(rows) == [i \in DOMAIN rows |-> rows[i].name]

AllItemNames(b) == Names(ById(ActiveItems(b.working)))

AddItemBatch(elems, env) ==
    LET b1 == AddAllItems(Begin, elems)
        b2 == IF b1.raised THEN b1 ELSE Commit(b1, env.failAt = "commit")
    IN  IF b2.raised THEN b2
        ELSE IF env.failAt = "query" THEN Raise(b2, "OperationalError")
        ELSE Return(b2,
                [success |-> TRUE, action |-> "add_shopping_item",
                 count |-> Len(elems), message |-> ItemNames(elems),
                 full_list |-> AllItemNames(b2),
                 total_items |-> Len(AllItemNames(b2))])

AddItemSingle(o, env) ==
    LET id == NextId(Begin.working.shopping)
        b1 == [Begin EXCEPT !.working.shopping =
                  Insert(Begin.working.shopping, <<NewItem(o)>>)]
        b2 == Commit(b1, env.failAt = "commit")
    IN  IF b2.raised THEN b2
        ELSE IF env.failAt = "query" THEN Raise(b2, "OperationalError")
        ELSE Return(b2,
                [success |-> TRUE, action |-> "add_shopping_item",
                 item_id |-> id,
                 message |-> <<Get(o, "name", DefaultItemName)>>,
                 full_list |-> AllItemNames(b2),
                 total_items |-> Len(AllItemNames(b2))])

_add_shopping_item(data, env) ==
    CatchRollback(IF IsArray(data) THEN AddItemBatch(data.items, env)
                  ELSE AddItemSingle(data, env))

(* the query of _list_shopping; .all() yields the rows in any order *)
ListShoppingQuery(data) ==
    {r \in shopping :
        /\ ~r.is_purchased
        /\ Truthy(Get(data, "category", NoneStr)) => r.category = data.category}

ListShoppingBody(data, env) ==
    IF ~IsObject(data) THEN Raise(Begin, "AttributeError")
    ELSE IF env.failAt = "query" THEN Raise(Begin, "OperationalError")
    ELSE Return(Begin,
            [success |-> TRUE, action |-> "list_shopping",
             count |-> Len(env.rows), items |-> env.rows])

_list_shopping(data, env) == Catch(ListShoppingBody(data, env))

(* the two name queries of _remove_shopping_item *)
ItemsLike(term) ==
    {r \in shopping : ILikeContains(r.name, term) /\ ~r.is_purchased}

FindItem(data, env) ==
    IF TruthyInt(Get(data, "item_id", NoneInt))
    THEN First({r \in shopping : r.id = data.item_id}, env.first)
    ELSE IF Truthy(Get(data, "item_name", NoneStr))
    THEN LET search_term == NormalizeTerm(data.item_name)
             item == First(ItemsLike(search_term), env.first)
         IN  IF item.id # 0 THEN item
             ELSE First(ItemsLike(data.item_name), env.first)
    ELSE NoRow

ItemNotFound == "Produsul nu a fost gasit pe lista."

(* a removal that deletes the row whatever the purchased flag says *)
RemoveItemRegardless(data, env) ==
    IF ~IsObject(data) THEN Raise(Begin, "AttributeError")
    ELSE IF env.failAt = "query" THEN Raise(Begin, "OperationalError")
    ELSE IF FindItem(data, env).id = 0
    THEN Return(Begin, Failure(ItemNotFound))
    ELSE Finish(Commit([Begin EXCEPT !.working.shopping =
                                         @ \ {FindItem(data, env)}],
                       env.failAt = "commit"),
                [success |-> TRUE, action |-> "remove_shopping_item",
                 message |-> <<FindItem(data, env).name>>])

RemoveItemBody(data, env) ==
    IF ~IsObject(data) THEN Raise(Begin, "AttributeError")
    ELSE IF env.failAt = "query" THEN Raise(Begin, "OperationalError")
    ELSE LET item == FindItem(data, env)
         IN  IF item.id = 0 THEN Return(Begin, Failure(ItemNotFound))
             ELSE IF Get(data, "purchased", FALSE)
             THEN LET b1 == [Begin EXCEPT !.working.shopping =
                                (@ \ {item}) \cup
                                {[item EXCEPT !.is_purchased = TRUE]}]
                      b2 == Commit(b1, env.failAt = "commit")
                  IN  IF b2.raised THEN b2
                      ELSE Return(b2,
                              [success |-> TRUE, action |-> "mark_purchased",
                               message |-> <<item.name>>])
             ELSE LET b1 == [Begin EXCEPT !.working.shopping = @ \ {item}]
                      b2 == Commit(b1, env.failAt = "commit")
                  IN  IF b2.raised THEN b2
                      ELSE Return(b2,
                              [success |-> TRUE,
                               action |-> "remove_shopping_item",
                               message |-> <<item.name>>])

_remove_shopping_item(data, env) == CatchRollback(RemoveItemBody(data, env))

(***************************************************************************)
(* The email and search collaborators.  Each catches its own exceptions    *)
(* and answers with a dict; what the mail server, the mailbox and the      *)
(* search engine do is an input of the call.                               *)
(***************************************************************************)
Letters ==
    {"a", "b", "c", "d", "e", "f", "g", "h", "i", "j", "k", "l", "m", "n",
     "o", "p", "q", "r", "s", "t", "u", "v", "w", "x", "y", "z",
     "A", "B", "C", "D", "E", "F", "G", "H", "I", "J", "K", "L", "M", "N",
     "O", "P", "Q", "R", "S", "T", "U", "V", "W", "X", "Y", "Z"}
Digits == {"0", "1", "2", "3", "4", "5", "6", "7", "8", "9"}

AllIn(s, chars) == \A i \in DOMAIN s : s[i] \in chars

(* ^[a-zA-Z0-9._%+-]+@[a-zA-Z0-9.-]+\.[a-zA-Z]{2,}$ *)
validate_email(email) ==
    \E i, j \in DOMAIN email :
        /\ 1 < i /\ i + 1 < j /\ j + 1 < Len(email)
        /\ email[i] = "@" /\ email[j] = "."
        /\ AllIn(SubSeq(email, 1, i - 1),
                 Letters \cup Digits \cup {".", "_", "%", "+", "-"})
        /\ AllIn(SubSeq(email, i + 1, j - 1),
                 Letters \cup Digits \cup {".", "-"})
        /\ AllIn(SubSeq(email, j + 1, Len(email)), Letters)

(* EmailService.is_configured needs the SMTP user (and its password) *)
Delivered(ok) == ok /\ Truthy(SMTP_USER)

(* email_service.send_email: one attempt, delivered or not *)
Send(b, kind, to, ok) ==
    [b EXCEPT !.calls = Append(@, kind),
              !.sent = IF Delivered(ok)
                       THEN Append(@, [kind |-> kind, to |-> to])
                       ELSE @]

SendResult(ok) ==
    IF Delivered(ok) THEN [success |-> TRUE, message |-> "Email sent"]
    ELSE Failure("Failed to send email")

(* email_ids[-count:] if len(email_ids) >= count else email_ids, reversed; *)
(* the mailbox lists its messages oldest first                             *)
Reversed(q) == [i \in DOMAIN q |-> q[Len(q) + 1 - i]]

Recent(mailbox, count) ==
    IF Len(mailbox) >= count /\ count # 0
    THEN Reversed(SubSeq(mailbox, Len(mailbox) - count + 1, Len(mailbox)))
    ELSE Reversed(mailbox)

get_recent_emails(count, env) ==
    IF ~Delivered(env.mailOk) THEN Failure("Failed to read emails")
    ELSE [success |-> TRUE, emails |-> Recent(env.mailbox, count)]

EmailAt(result, index) ==
    IF ~result.success THEN result
    ELSE IF index >= Len(result.emails) THEN Failure("Email not found")
    ELSE [success |-> TRUE, email |-> result.emails[index + 1]]

get_email_by_index(index, env) ==
    EmailAt(get_recent_emails(index + 1, env), index)

SearchWindow == 50
SearchCount == 5

RECURSIVE Matching(_, _, _)
Matching(emails, query, count) ==
    IF emails = <<>> \/ count = 0 THEN <<>>
    ELSE IF IsSubstringCI(query, Head(emails).subject)
            \/ IsSubstringCI(query, Head(emails).body)
         THEN <<Head(emails)>> \o Matching(Tail(emails), query, count - 1)
         ELSE Matching(Tail(emails), query, count)

Matches(result, query) ==
    IF ~result.success THEN result
    ELSE [success |-> TRUE,
          emails |-> Matching(result.emails, query, SearchCount)]

search_emails(query, env) ==
    Matches(get_recent_emails(SearchWindow, env), query)

(***************************************************************************)
(* Email and search handlers.                                              *)
(***************************************************************************)
NoRecipient == "Adresa de email nu a fost specificata."
BadRecipient == "Adresa de email nu este valida."

(* AgentAction(action_type=..., target=..., status=...) *)
NewAction(type, target, status) ==
    [id |-> 0, action_type |-> type, target |-> target, status |-> status]

SetStatus(b, id, status) ==
    [b EXCEPT !.working.actions =
        {IF r.id = id THEN [r EXCEPT !.status = status] ELSE r : r \in @}]

(* lines 397-405, once the pending row is committed *)
SendLogged(b, id, to_email, env) ==
    IF b.raised THEN b
    ELSE Finish(Commit(SetStatus(Send(b, "email.send", to_email, env.sendOk),
                                 id,
                                 IF Delivered(env.sendOk) THEN "completed"
                                 ELSE "failed"),
                       env.failAt = "commit2"),
                SendResult(env.sendOk))

SendEmailTo(to_email, env) ==
    IF ~Truthy(to_email) THEN Return(Begin, Failure(NoRecipient))
    ELSE IF ~validate_email(to_email)
    THEN Return(Begin, Failure(BadRecipient))
    ELSE SendLogged(Commit([Begin EXCEPT !.working.actions =
                               Insert(@, <<NewAction("email", to_email,
                                                     "pending")>>)],
                           env.failAt = "commit"),
                    NextId(actions), to_email, env)

SendEmailBody(data, env) ==
    IF ~IsObject(data) THEN Raise(Begin, "AttributeError")
    ELSE SendEmailTo(Get(data, "to", NoneStr), env)

_send_email(data, env) == CatchRollback(SendEmailBody(data, env))

DefaultReadCount == 5

(* the numbered list the two listing handlers build *)
Numbered(emails) ==
    [i \in DOMAIN emails |->
        [index |-> i, subject |-> emails[i].subject,
         preview |-> emails[i].body]]

(* the handler's answer to what the mailbox gave *)
Listed(b, result, action) ==
    IF ~result.success THEN Return(b, Failure(result.error))
    ELSE Return(b, [success |-> TRUE, action |-> action,
                    emails |-> Numbered(result.emails)])

ReadEmailsBody(data, env) ==
    IF ~IsObject(data) THEN Raise(Begin, "AttributeError")
    ELSE Listed(Call(Begin, "email.read"),
                get_recent_emails(Get(data, "count", DefaultReadCount), env),
                "read_emails")

_read_emails(data, env) == Catch(ReadEmailsBody(data, env))

LastEmail(b, result) ==
    IF ~result.success THEN Return(b, Failure(result.error))
    ELSE IF result.emails = <<>>
    THEN Return(b, [success |-> TRUE, action |-> "read_last_email",
                    email |-> [shape |-> "null"]])
    ELSE Return(b, [success |-> TRUE, action |-> "read_last_email",
                    email |-> result.emails[1]])

ReadLastEmailBody(data, env) ==
    LastEmail(Call(Begin, "email.read"), get_recent_emails(1, env))

_read_last_email(data, env) == Catch(ReadLastEmailBody(data, env))

NoEmailQuery == "Nu ai specificat ce sa caut in emailuri."

SearchEmailsFor(query, env) ==
    IF ~Truthy(query) THEN Return(Begin, Failure(NoEmailQuery))
    ELSE Listed(Call(Begin, "email.read"), search_emails(query, env),
                "search_emails")

SearchEmailsBody(data, env) ==
    IF ~IsObject(data) THEN Raise(Begin, "AttributeError")
    ELSE SearchEmailsFor(Get(data, "query", <<>>), env)

_search_emails(data, env) == Catch(SearchEmailsBody(data, env))

DefaultIndex == 1

Summarized(b, result) ==
    IF ~result.success THEN Return(b, Failure(result.error))
    ELSE Return(b, [success |-> TRUE, action |-> "summarize_email",
                    email |-> result.email, needs_ai_summary |-> TRUE])

SummarizeEmailBody(data, env) ==
    IF ~IsObject(data) THEN Raise(Begin, "AttributeError")
    ELSE Summarized(Call(Begin, "email.read"),
                    get_email_by_index(Get(data, "index", DefaultIndex), env))

_summarize_email(data, env) == Catch(SummarizeEmailBody(data, env))

NoQuery == "Nu ai specificat ce sa caut."

(* search_service.search answers with success, results and error; the      *)
(* handler copies success and leaves error behind                          *)
SearchInternetFor(query, env) ==
    IF ~Truthy(query) THEN Return(Begin, Failure(NoQuery))
    ELSE Return(Call(Begin, "search"),
                [success |-> env.searchOk, action |-> "search_internet",
                 query |-> query,
                 results |-> IF env.searchOk THEN env.hits ELSE <<>>])

SearchInternetBody(data, env) ==
    IF ~IsObject(data) THEN Raise(Begin, "AttributeError")
    ELSE SearchInternetFor(Get(data, "query", <<>>), env)

_search_internet(data, env) == Catch(SearchInternetBody(data, env))

(***************************************************************************)
(* The meeting scheduler (MeetingSchedulerService).  A reminder job is     *)
(* identified by the remote event id and the role of its recipient:        *)
(* reminder_<event_id>_owner, reminder_<event_id>_attendee.  Durations     *)
(* and lead times are counted in clock ticks.                              *)
(***************************************************************************)
(* scheduler.add_job(..., id=..., replace_existing=True) *)
add_job(js, event_id, role, run_date, to) ==
    {j \in js : ~(j.event_id = event_id /\ j.role = role)} \cup
    {[event_id |-> event_id, role |-> role, run_date |-> run_date,
      to |-> to]}

(* scheduler.remove_job(id) inside try/except: pass *)
remove_job(js, event_id, role) ==
    {j \in js : ~(j.event_id = event_id /\ j.role = role)}

(* start(), also called by _schedule_reminder when not started *)
(* a start that sets the flag and leaves the scheduler as it is *)
StartFlagOnly(b) == [b EXCEPT !.started = TRUE]

start(b) ==
    IF ~b.started THEN [b EXCEPT !.running = TRUE, !.started = TRUE] ELSE b

(* stop(): scheduler.shutdown() and the flag, when started *)
stop(b) ==
    IF b.started THEN [b EXCEPT !.running = FALSE, !.started = FALSE] ELSE b

(* a second job for every attendee address *)
AnyAttendee(attendee_email) == Truthy(attendee_email)

(* if attendee_email and attendee_email != SMTP_USER *)
NeedsAttendeeJob(attendee_email) ==
    Truthy(attendee_email) /\ attendee_email # SMTP_USER

AddJobIf(wanted, b, role, event_id, run_date, to) ==
    IF wanted
    THEN [b EXCEPT !.calls = Append(@, "jobs.add." \o role),
                   !.jobs = add_job(@, event_id, role, run_date, to)]
    ELSE b

_schedule_reminder(b, event_id, reminder_time, attendee_email) ==
    [AddJobIf(NeedsAttendeeJob(attendee_email),
              AddJobIf(Truthy(SMTP_USER), start(b), "owner", event_id,
                       reminder_time, SMTP_USER),
              "attendee", event_id, reminder_time, attendee_email)
     EXCEPT !.scheduled_reminders = @ \cup {event_id}]

(* a cancel that forgets the attendee's job *)
CancelOwnerReminder(b, event_id) ==
    [b EXCEPT
        !.calls = @ \o <<"jobs.remove.owner">>,
        !.jobs = remove_job(@, event_id, "owner"),
        !.scheduled_reminders = @ \ {event_id}]

cancel_reminder(b, event_id) ==
    [b EXCEPT
        !.calls = @ \o <<"jobs.remove.owner", "jobs.remove.attendee">>,
        !.jobs = remove_job(remove_job(@, event_id, "owner"),
                            event_id, "attendee"),
        !.scheduled_reminders = @ \ {event_id}]

SchedulingFailed == "Failed to schedule meeting"
CalendarFailed == "Failed to create event"

(* a notification whose failure is raised instead of being passed over *)
SendOrRaise(wanted, b, kind, to, ok) ==
    IF ~wanted THEN b
    ELSE IF Delivered(ok) THEN Send(b, kind, to, ok)
    ELSE Raise(Send(b, kind, to, ok), "SMTPException")

SendIf(wanted, b, kind, to, ok) ==
    IF wanted THEN Send(b, kind, to, ok) ELSE b

(* lines 118-129: the scheduling decision, on the clock as just read *)
RemindIf(b, event_id, reminder_time, attendee_email) ==
    IF reminder_time > LastRead(b)
    THEN _schedule_reminder(b, event_id, reminder_time, attendee_email)
    ELSE b

(* lines 131-143: the clock was read once more for each reminder field *)
Scheduled(b, event_id, title, start_time, end_time, attendee_email, reminder_time) ==
    [b EXCEPT !.inner =
        [success |-> TRUE, event_id |-> event_id, meet_link |-> event_id,
         title |-> title, start_time |-> start_time, end_time |-> end_time,
         attendee |-> attendee_email,
         reminder_scheduled |-> reminder_time > b.reads[Len(b.reads) - 1],
         reminder_time |-> IF reminder_time > LastRead(b)
                           THEN reminder_time ELSE NoneInt]]

(* lines 91-143, once the remote event exists *)
Created(b, event_id, title, start_time, end_time, attendee_email, reminder_time, env) ==
    Scheduled(
        ReadClock(
            ReadClock(
                RemindIf(
                    ReadClock(
                        SendIf(Truthy(SMTP_USER),
                               SendIf(Truthy(attendee_email),
                                      [b EXCEPT !.nextGid = @ + 1],
                                      "email.invitation", attendee_email,
                                      env.inviteOk),
                               "email.confirmation", SMTP_USER,
                               env.confirmOk),
                        env.drift[1]),
                    event_id, reminder_time, attendee_email),
                env.drift[2]),
            env.drift[3]),
        event_id, title, start_time, end_time, attendee_email, reminder_time)

(* a scheduler that looks at the outcome of the remote creation only after *)
(* the emails and the reminders                                            *)
ScheduleRegardless(b, title, start_time, end_time, attendee_email, reminder_hours_before, env) ==
    IF reminder_hours_before = NoneInt
    THEN [b EXCEPT !.inner = Failure(SchedulingFailed)]
    ELSE [Created(Call(b, "calendar.create"), b.nextGid, title, start_time,
                  IF end_time = NoneInt THEN start_time + 1 ELSE end_time,
                  attendee_email, start_time - reminder_hours_before, env)
          EXCEPT !.inner = IF env.create = "ok" THEN @
                           ELSE Failure(CalendarFailed)]

(* MeetingSchedulerService.schedule_meeting.  `inner` keeps the dict it    *)
(* returns.  The clock is read three times: for the scheduling decision    *)
(* and for each of the two reminder fields of the dict.  An exception      *)
(* (a lead time that is no number, a calendar error that cannot be         *)
(* decoded) is caught and turned into a failure dict.                      *)
schedule_meeting(b, title, start_time, end_time, attendee_email, reminder_hours_before, env) ==
    IF reminder_hours_before = NoneInt
    THEN [b EXCEPT !.inner = Failure(SchedulingFailed)]
    ELSE IF env.create = "raise"
    THEN [Call(b, "calendar.create") EXCEPT
             !.inner = Failure(SchedulingFailed)]
    ELSE IF env.create = "fail"
    THEN [Call(b, "calendar.create") EXCEPT !.inner = Failure(CalendarFailed)]
    ELSE Created(Call(b, "calendar.create"), b.nextGid, title, start_time,
                 IF end_time = NoneInt THEN start_time + 1 ELSE end_time,
                 attendee_email, start_time - reminder_hours_before, env)

(***************************************************************************)
(* Calendar handlers.                                                      *)
(***************************************************************************)
DefaultMeetingTitle == <<"I", "n", "t", "a", "l", "n", "i", "r", "e">>
DefaultEventTitle == <<"E", "v", "e", "n", "i", "m", "e", "n", "t">>
DefaultDuration == 1
DefaultLead == 1
DefaultTimeOfDay == 1
PageSize == 10

NoStart == "Nu am putut determina data si ora intalnirii."
NotFuture == "Data intalnirii trebuie sa fie in viitor."
BadAttendee == "Adresa de email nu este valida."
NoEventStart == "Nu am putut determina data evenimentului."
EventNotFound == "Evenimentul nu a fost gasit."

(* f"{date} {time}": a day and a time of that day *)
DateAndTime(date, time) ==
    IF date = Malformed \/ time = Malformed THEN Malformed ELSE date + time

(* lines 583-587 *)
MeetingStart(data) ==
    IF HasDate(data, "start_time") THEN _parse_date(data.start_time)
    ELSE IF HasDate(data, "date") /\ HasDate(data, "time")
    THEN _parse_date(DateAndTime(data.date, data.time))
    ELSE NoneInt

(* lines 683-689 *)
EventStart(data) ==
    IF HasDate(data, "start_time") THEN _parse_date(data.start_time)
    ELSE IF HasDate(data, "date")
    THEN _parse_date(DateAndTime(data.date,
                                 Get(data, "time", DefaultTimeOfDay)))
    ELSE NoneInt

(* a check that lets a meeting start at the current instant *)
StrictlyPast(start_time, t) == start_time < t

(* if start_time <= datetime.now() *)
NotInFuture(start_time, t) == start_time <= t

(* CalendarEvent(...) *)
NewEvent(google_event_id, title, start_time, end_time, attendee_email, reminder_time, created) ==
    [id |-> 0, google_event_id |-> google_event_id, title |-> title,
     start_time |-> start_time, end_time |-> end_time,
     attendee_email |-> attendee_email, reminder_time |-> reminder_time,
     status |-> "scheduled", updated_at |-> created]

(* a save that commits the event before it logs the action *)
SaveMeetingCommitEach(b, event, action, fails) ==
    LET b1 == Commit([b EXCEPT !.working.events = Insert(@, <<event>>)],
                     fails)
    IN  IF b1.raised THEN b1
        ELSE Commit([b1 EXCEPT !.working.actions = Insert(@, <<action>>)],
                    fails)

(* db.add(event); db.add(action); db.commit() *)
SaveMeeting(b, event, action, fails) ==
    Commit([b EXCEPT !.working.events = Insert(@, <<event>>),
                     !.working.actions = Insert(@, <<action>>)],
           fails)

(* lines 633-671 *)
Saved(b, title, start_time, end_time, attendee_email, reminder_hours, fails) ==
    IF ~b.inner.success THEN Return(b, b.inner)
    ELSE Finish(SaveMeeting(b,
                    NewEvent(b.inner.event_id, title, start_time, end_time,
                             attendee_email, start_time - reminder_hours,
                             b.clock),
                    NewAction("schedule_meeting", attendee_email,
                              "completed"),
                    fails),
                [success |-> TRUE, action |-> "schedule_meeting",
                 event_id |-> b.inner.event_id,
                 meet_link |-> b.inner.meet_link, title |-> title,
                 start_time |-> start_time, attendee |-> attendee_email])

(* lines 603-608 *)
MeetingEnd(data, start_time) ==
    IF HasDate(data, "end_time") THEN _parse_date(data.end_time)
    ELSE start_time + Get(data, "duration_minutes", DefaultDuration)

(* lines 595-671, the clock read *)
ScheduleAt(b, data, title, start_time, attendee_email, reminder_hours, env) ==
    IF NotInFuture(start_time, LastRead(b))
    THEN Return(b, Failure(NotFuture))
    ELSE IF /\ ~HasDate(data, "end_time")
            /\ Get(data, "duration_minutes", DefaultDuration) = NoneInt
    THEN Raise(b, "TypeError")
    ELSE IF Truthy(attendee_email) /\ ~validate_email(attendee_email)
    THEN Return(b, Failure(BadAttendee))
    ELSE Saved(schedule_meeting(b, title, start_time,
                                MeetingEnd(data, start_time),
                                attendee_email, reminder_hours, env),
               title, start_time, MeetingEnd(data, start_time),
               attendee_email, reminder_hours, env.failAt = "commit")

ScheduleMeetingBody(data, env) ==
    IF ~IsObject(data) THEN Raise(Begin, "AttributeError")
    ELSE IF MeetingStart(data) = NoneInt
    THEN Return(Begin, Failure(NoStart))
    ELSE ScheduleAt(ReadClock(Begin, 0), data,
                    Get(data, "title", DefaultMeetingTitle),
                    MeetingStart(data),
                    Get(data, "attendee_email", NoneStr),
                    Get(data, "reminder_hours", DefaultLead), env)

_schedule_meeting(data, env) == CatchRollback(ScheduleMeetingBody(data, env))

AddEventAt(b, title, start_time, duration_minutes, env) ==
    IF start_time = NoneInt THEN Return(Begin, Failure(NoEventStart))
    ELSE IF duration_minutes = NoneInt THEN Raise(Begin, "TypeError")
    ELSE IF env.create = "raise" THEN Raise(b, "JSONDecodeError")
    ELSE IF env.create = "fail" THEN Return(b, Failure(CalendarFailed))
    ELSE Finish(Commit([b EXCEPT !.nextGid = @ + 1,
                                 !.working.events =
                                    Insert(@, <<NewEvent(b.nextGid, title,
                                        start_time,
                                        start_time + duration_minutes,
                                        NoneStr, NoneInt, b.clock)>>)],
                       env.failAt = "commit"),
                [success |-> TRUE, action |-> "add_calendar_event",
                 event_id |-> b.nextGid, title |-> title,
                 start_time |-> start_time])

AddCalendarEventBody(data, env) ==
    IF ~IsObject(data) THEN Raise(Begin, "AttributeError")
    ELSE AddEventAt(Call(Begin, "calendar.create"),
                    Get(data, "title", DefaultEventTitle), EventStart(data),
                    Get(data, "duration_minutes", DefaultDuration), env)

_add_calendar_event(data, env) ==
    CatchRollback(AddCalendarEventBody(data, env))

StartAsc(r1, r2) == r1.start_time <= r2.start_time

Take(q, n) == SubSeq(q, 1, IF Len(q) < n THEN Len(q) ELSE n)

(* the fallback query of _list_calendar_events *)
UpcomingQuery(t) ==
    {r \in events : r.start_time >= t /\ r.status = "scheduled"}

UpcomingOrder == OrderedBy(UpcomingQuery(now), StartAsc)

LocalListing(b, found) ==
    Return(b, [success |-> TRUE, action |-> "list_calendar_events",
               count |-> Len(found), events |-> found])

ListCalendarEventsBody(data, env) ==
    IF env.remote = "ok"
    THEN Return(Call(Begin, "calendar.list"),
                [success |-> TRUE, action |-> "list_calendar_events",
                 count |-> Len(env.listing), events |-> env.listing])
    ELSE IF env.failAt = "query"
    THEN Raise(Call(Begin, "calendar.list"), "OperationalError")
    ELSE LocalListing(ReadClock(Call(Begin, "calendar.list"), 0),
                      Take(env.rows, PageSize))

_list_calendar_events(data, env) == Catch(ListCalendarEventsBody(data, env))

(* lines 813-825: by local id, else by remote id, else by title among the  *)
(* events still scheduled                                                  *)
FindEvent(data, env) ==
    IF TruthyInt(Get(data, "event_id", NoneInt))
    THEN First({r \in events : r.id = data.event_id}, env.first)
    ELSE IF TruthyInt(Get(data, "google_event_id", NoneInt))
    THEN First({r \in events : r.google_event_id = data.google_event_id},
               env.first)
    ELSE IF Truthy(Get(data, "title", NoneStr))
    THEN First({r \in events : /\ ILikeContains(r.title, data.title)
                               /\ r.status = "scheduled"}, env.first)
    ELSE NoRow

(* calendar_service.delete_event answers with a dict, success or failure;  *)
(* line 834 drops it                                                       *)
DeleteRemote(b, env) ==
    Call(b, IF env.delete = "ok" THEN "calendar.delete"
                                 ELSE "calendar.delete.failed")

CancelRemote(b, google_event_id, env) ==
    IF TruthyInt(google_event_id)
    THEN cancel_reminder(DeleteRemote(b, env), google_event_id)
    ELSE b

(* a cancellation that flips the status: a cancelled row is scheduled     *)
(* again                                                                   *)
ToggleStatus(b, event) ==
    [b EXCEPT !.working.events =
        (@ \ {event}) \cup
        {[event EXCEPT !.status = IF @ = "cancelled" THEN "scheduled"
                                                     ELSE "cancelled",
                       !.updated_at = LastRead(b)]}]

MarkCancelled(b, event) ==
    [b EXCEPT !.working.events =
        (@ \ {event}) \cup {[event EXCEPT !.status = "cancelled",
                                          !.updated_at = LastRead(b)]}]

(* lines 827-848 *)
CancelEvent(event, env) ==
    IF event.id = 0 THEN Return(Begin, Failure(EventNotFound))
    ELSE Finish(Commit(MarkCancelled(
                           ReadClock(CancelRemote(Begin,
                                                  event.google_event_id,
                                                  env), 0),
                           event),
                       env.failAt = "commit"),
                [success |-> TRUE, action |-> "cancel_calendar_event",
                 message |-> <<event.title>>])

CancelCalendarEventBody(data, env) ==
    IF ~IsObject(data) THEN Raise(Begin, "AttributeError")
    ELSE IF env.failAt = "query" THEN Raise(Begin, "OperationalError")
    ELSE CancelEvent(FindEvent(data, env), env)

_cancel_calendar_event(data, env) ==
    CatchRollback(CancelCalendarEventBody(data, env))


(***************************************************************************)
(* The dispatcher.                                                         *)
(***************************************************************************)
Registry ==
    {"add_task", "list_tasks", "complete_task", "delete_task",
     "add_shopping_item", "list_shopping", "remove_shopping_item",
     "send_email", "read_emails", "read_last_email", "search_emails",
     "summarize_email", "search_internet", "schedule_meeting",
     "add_calendar_event", "list_calendar_events", "cancel_calendar_event"}

execute(intent, action_data, env) ==
    LET data == PayloadOrEmpty(action_data)
    IN  CASE intent = "add_task" -> _add_task(data, env)
          [] intent = "list_tasks" -> _list_tasks(data, env)
          [] intent = "complete_task" -> _complete_task(data, env)
          [] intent = "delete_task" -> _delete_task(data, env)
          [] intent = "add_shopping_item" -> _add_shopping_item(data, env)
          [] intent = "list_shopping" -> _list_shopping(data, env)
          [] intent = "remove_shopping_item" ->
                _remove_shopping_item(data, env)
          [] intent = "send_email" -> _send_email(data, env)
          [] intent = "read_emails" -> _read_emails(data, env)
          [] intent = "read_last_email" -> _read_last_email(data, env)
          [] intent = "search_emails" -> _search_emails(data, env)
          [] intent = "summarize_email" -> _summarize_email(data, env)
          [] intent = "search_internet" -> _search_internet(data, env)
          [] intent = "schedule_meeting" -> _schedule_meeting(data, env)
          [] intent = "add_calendar_event" -> _add_calendar_event(data, env)
          [] intent = "list_calendar_events" ->
                _list_calendar_events(data, env)
          [] intent = "cancel_calendar_event" ->
                _cancel_calendar_event(data, env)
          [] OTHER -> Return(Begin, Failure("Unknown intent"))

(* Request handling is synchronous: a call is made only when no result is  *)
(* waiting for the caller.                                                 *)
Nothing ==
    [now |-> 0,
     store |-> [tasks |-> {}, shopping |-> {}, events |-> {}, actions |-> {}],
     jobs |-> {}, scheduled_reminders |-> {}, started |-> FALSE]

Idle ==
    [intent |-> "idle", data |-> [shape |-> "null"],
     result |-> [success |-> TRUE], commits |-> 0, calls |-> <<>>,
     sent |-> <<>>, inner |-> NoResult, reads |-> <<>>,
     dirty |-> FALSE, propagated |-> FALSE, before |-> Nothing]

(* the state a call started from *)
Before ==
    [now |-> now, store |-> Store, jobs |-> jobs,
     scheduled_reminders |-> scheduled_reminders, started |-> started]

(* the bounds of the model: ids, remote ids and the clock stay within them *)
Within(o) ==
    /\ Ids(o.committed.tasks) \subseteq 1..MaxTasks
    /\ Ids(o.committed.shopping) \subseteq 1..MaxItems
    /\ Ids(o.committed.events) \subseteq 1..MaxEvents
    /\ Ids(o.committed.actions) \subseteq 1..MaxActions
    /\ o.nextGid <= MaxRemote + 1
    /\ o.clock <= MaxTime

(* The state after a call, and the record of the call: what was asked,     *)
(* what came back, how many commits were made, which collaborator calls,   *)
(* which emails went out, what the meeting scheduler answered, what the    *)
(* clock showed at each read, whether the session was left with            *)
(* uncommitted writes, whether an exception reached the caller, and the    *)
(* state the call started from.                                            *)
Done(intent, data, o) ==
    /\ Within(o)
    /\ tasks' = o.committed.tasks
    /\ shopping' = o.committed.shopping
    /\ events' = o.committed.events
    /\ actions' = o.committed.actions
    /\ jobs' = o.jobs
    /\ scheduled_reminders' = o.scheduled_reminders
    /\ started' = o.started
    /\ running' = o.running
    /\ nextGid' = o.nextGid
    /\ now' = o.clock
    /\ UNCHANGED <<SMTP_USER, inflight, reminded>>
    /\ last' = [intent |-> intent, data |-> data, result |-> o.result,
                commits |-> o.commits, calls |-> o.calls, sent |-> o.sent,
                inner |-> o.inner, reads |-> o.reads,
                dirty |-> o.working # o.committed, propagated |-> o.raised,
                before |-> Before]

(***************************************************************************)
(* Words and payloads.                                                     *)
(***************************************************************************)
Wmere == <<"m", "e", "r", "e">>
Wmure == <<"m", "u", "r", "e">>
Wlapte == <<"l", "a", "p", "t", "e">>
Wmerele == <<"m", "e", "r", "e", "l", "e">>
Wlaptele == <<"l", "a", "p", "t", "e", "l", "e">>
WMERE == <<"M", "E", "R", "E">>
Wm_re == <<"m", "_", "r", "e">>
Wpere == <<"p", "e", "r", "e">>
Catc == <<"c">>
Wm == <<"m">>

Owner == <<"a", "@", "b", ".", "r", "o">>
Guest == <<"g", "@", "b", ".", "r", "o">>
NotAnAddress == <<"g", "@", "b">>

Null == [shape |-> "null"]
NonObject == [shape |-> "string"]

RECURSIVE SeqsUpTo(_, _)
SeqsUpTo(E, n) ==
    IF n = 0 THEN {<<>>}
    ELSE LET shorter == SeqsUpTo(E, n - 1)
         IN  shorter \cup {Append(q, e) : q \in shorter, e \in E}

Arrays(E) == {[shape |-> "array", items |-> q] : q \in SeqsUpTo(E, MaxBatch)}

TaskObjects ==
    {[shape |-> "object", title |-> Wmere, due_date |-> 1, category |-> Catc],
     [shape |-> "object", title |-> Wlapte, due_date |-> Malformed],
     [shape |-> "object", title |-> Wmure, due_date |-> 3],
     [shape |-> "object", title |-> NoneStr]}

AddTaskPayloads ==
    TaskObjects \cup {EmptyObject, Null} \cup Arrays(TaskObjects \cup {NonObject})

ListTasksPayloads ==
    {Null, [shape |-> "object", today |-> TRUE],
     [shape |-> "object", category |-> Catc],
     [shape |-> "array", items |-> <<EmptyObject>>]}

FindTaskPayloads ==
    {[shape |-> "object", task_id |-> i] : i \in 1..MaxTasks} \cup
    {[shape |-> "object", task_title |-> w] :
        w \in {Wmere, Wmerele, <<"m", "_", "r">>}}
    \cup {[shape |-> "object", task_id |-> MaxTasks, task_title |-> Wmere]}
    \cup {Null, [shape |-> "array", items |-> <<EmptyObject>>]}

ItemObjects ==
    {[shape |-> "object", name |-> Wmere],
     [shape |-> "object", name |-> Wlapte, category |-> Catc],
     [shape |-> "object", name |-> NoneStr]}

AddItemPayloads ==
    ItemObjects \cup {EmptyObject, Null} \cup Arrays(ItemObjects \cup {NonObject})

ListShoppingPayloads ==
    {Null, [shape |-> "object", category |-> Catc],
     [shape |-> "array", items |-> <<EmptyObject>>]}

RemoveItemPayloads ==
    {[shape |-> "object", item_id |-> i] : i \in 1..MaxItems} \cup
    {[shape |-> "object", item_name |-> w] :
        w \in {Wmerele, Wlaptele, WMERE, Wm_re, Wpere}} \cup
    {[shape |-> "object", item_name |-> Wlaptele, purchased |-> TRUE],
     [shape |-> "object", item_id |-> 1, purchased |-> TRUE],
     [shape |-> "object", item_id |-> MaxItems, item_name |-> Wmere],
     Null, [shape |-> "array", items |-> <<EmptyObject>>]}

ObjectArray == [shape |-> "array", items |-> <<EmptyObject>>]

SendEmailPayloads ==
    {[shape |-> "object", to |-> a] : a \in {Guest, NotAnAddress}}
    \cup {Null, ObjectArray}

Message1 == [subject |-> Wmere, body |-> Wlapte]
Message2 == [subject |-> Wpere, body |-> Wmure]

Mailboxes == {<<>>, <<Message1, Message2>>}

ReadEmailsPayloads ==
    {Null, [shape |-> "object", count |-> 1], ObjectArray}

SearchPayloads ==
    {Null, [shape |-> "object", query |-> Wmere], ObjectArray}

SummarizePayloads ==
    {Null, [shape |-> "object", index |-> 0], ObjectArray}

Hits == {<<>>, <<Wmere>>}

(* meetings: a start time, with or without an attendee *)
MeetingObjects ==
    {[shape |-> "object", title |-> Wmere, start_time |-> MaxTime + 1]}
    \cup
    {[shape |-> "object", title |-> Wmere, start_time |-> MaxTime + 1,
      attendee_email |-> a] : a \in {Owner, Guest}}

SchedulePayloads ==
    MeetingObjects \cup
    {[shape |-> "object", title |-> Wmere, start_time |-> 0,
      attendee_email |-> Guest],
     [shape |-> "object", start_time |-> Malformed],
     [shape |-> "object", title |-> Wmere],
     [shape |-> "object", start_time |-> MaxTime + 1,
      attendee_email |-> NotAnAddress],
     Null, ObjectArray}

(* meetings with an end, a duration or a lead time of their own *)
TimedSchedulePayloads ==
    {[shape |-> "object", title |-> Wmure, start_time |-> MaxTime + 1,
      attendee_email |-> Guest, reminder_hours |-> 2],
     [shape |-> "object", date |-> 2, time |-> 1],
     [shape |-> "object", start_time |-> MaxTime + 1, end_time |-> Malformed],
     [shape |-> "object", start_time |-> MaxTime + 1, end_time |-> 1],
     [shape |-> "object", start_time |-> MaxTime + 1,
      duration_minutes |-> -2],
     [shape |-> "object", start_time |-> MaxTime + 1,
      duration_minutes |-> NoneInt],
     [shape |-> "object", start_time |-> MaxTime + 1,
      reminder_hours |-> NoneInt]}

NoDrift == <<0, 0, 0>>

(* the clock advances at most once during a call *)
Drifts == {d \in [1..3 -> 0..1] : d[1] + d[2] + d[3] <= 1}

(* what the collaborators, the store and the clock do during one           *)
(* schedule_meeting: the clock may advance between reads of a call in      *)
(* which nothing fails; notification emails fail independently             *)
ScheduleEnvs ==
    {[create |-> "ok", inviteOk |-> TRUE, confirmOk |-> TRUE,
      failAt |-> "none", drift |-> d] : d \in Drifts}
    \cup
    {[create |-> "ok", inviteOk |-> i, confirmOk |-> c, failAt |-> f,
      drift |-> NoDrift] :
        i \in BOOLEAN, c \in BOOLEAN, f \in {"none", "commit"}}
    \cup
    {[create |-> c, inviteOk |-> TRUE, confirmOk |-> TRUE,
      failAt |-> "none", drift |-> NoDrift] : c \in {"fail", "raise"}}

AddEventPayloads ==
    {[shape |-> "object", title |-> Wmure, start_time |-> 1],
     [shape |-> "object", date |-> 2],
     [shape |-> "object", start_time |-> Malformed],
     [shape |-> "object", title |-> Wmure],
     [shape |-> "object", start_time |-> 1, duration_minutes |-> NoneInt],
     [shape |-> "object", start_time |-> 1, duration_minutes |-> -1],
     Null, ObjectArray}

RemoteListings == {<<>>, <<[title |-> Wmere, start |-> 1]>>}

CancelPayloads ==
    {[shape |-> "object", event_id |-> i] : i \in 1..MaxEvents} \cup
    {[shape |-> "object", google_event_id |-> g] : g \in 1..MaxRemote} \cup
    {[shape |-> "object", title |-> w] : w \in {Wmere, Wmerele, Wm}} \cup
    {Null, ObjectArray}

UnknownIntents == {"", "ADD_TASK"}

(***************************************************************************)
(* Actions: one call of execute per intent.                                *)
(***************************************************************************)
ExecAddTask ==
    /\ last = Idle
    /\ \E data \in AddTaskPayloads, failAt \in {"none", "commit", "query"} :
          Done("add_task", data,
               execute("add_task", data, [failAt |-> failAt]))

ExecListTasks ==
    /\ last = Idle
    /\ \E data \in ListTasksPayloads, failAt \in {"none", "query"} :
          \E rows \in TaskOrder(PayloadOrEmpty(data)) :
              Done("list_tasks", data,
                   execute("list_tasks", data,
                   [failAt |-> failAt, rows |-> rows]))

ExecCompleteTask ==
    /\ last = Idle
    /\ \E data \in FindTaskPayloads, failAt \in {"none", "commit", "query"},
          k \in 1..MaxTasks :
          Done("complete_task", data,
               execute("complete_task", data, [failAt |-> failAt, first |-> k]))

ExecDeleteTask ==
    /\ last = Idle
    /\ \E data \in FindTaskPayloads, failAt \in {"none", "commit", "query"},
          k \in 1..MaxTasks :
          Done("delete_task", data,
               execute("delete_task", data, [failAt |-> failAt, first |-> k]))

ExecAddShoppingItem ==
    /\ last = Idle
    /\ \E data \in AddItemPayloads, failAt \in {"none", "commit", "query"} :
          Done("add_shopping_item", data,
               execute("add_shopping_item", data, [failAt |-> failAt]))

ExecListShopping ==
    /\ last = Idle
    /\ \E data \in ListShoppingPayloads, failAt \in {"none", "query"} :
          \E rows \in Perms(ListShoppingQuery(PayloadOrEmpty(data))) :
              Done("list_shopping", data,
                   execute("list_shopping", data,
                   [failAt |-> failAt, rows |-> rows]))

ExecRemoveShoppingItem ==
    /\ last = Idle
    /\ \E data \in RemoveItemPayloads, failAt \in {"none", "commit", "query"},
          k \in 1..MaxItems :
          Done("remove_shopping_item", data,
               execute("remove_shopping_item", data,
               [failAt |-> failAt, first |-> k]))

ExecSendEmail ==
    /\ last = Idle
    /\ \E data \in SendEmailPayloads,
          failAt \in {"none", "commit", "commit2"}, sendOk \in BOOLEAN :
          Done("send_email", data,
               execute("send_email", data,
               [failAt |-> failAt, sendOk |-> sendOk]))

ExecReadEmails ==
    /\ last = Idle
    /\ \E data \in ReadEmailsPayloads, mailOk \in BOOLEAN,
          mailbox \in Mailboxes :
          Done("read_emails", data,
               execute("read_emails", data,
               [mailOk |-> mailOk, mailbox |-> mailbox]))

ExecReadLastEmail ==
    /\ last = Idle
    /\ \E data \in {Null, ObjectArray}, mailOk \in BOOLEAN,
          mailbox \in Mailboxes :
          Done("read_last_email", data,
               execute("read_last_email", data,
               [mailOk |-> mailOk, mailbox |-> mailbox]))

ExecSearchEmails ==
    /\ last = Idle
    /\ \E data \in SearchPayloads, mailOk \in BOOLEAN,
          mailbox \in Mailboxes :
          Done("search_emails", data,
               execute("search_emails", data,
               [mailOk |-> mailOk, mailbox |-> mailbox]))

ExecSummarizeEmail ==
    /\ last = Idle
    /\ \E data \in SummarizePayloads, mailOk \in BOOLEAN,
          mailbox \in Mailboxes :
          Done("summarize_email", data,
               execute("summarize_email", data,
               [mailOk |-> mailOk, mailbox |-> mailbox]))

ExecSearchInternet ==
    /\ last = Idle
    /\ \E data \in SearchPayloads, searchOk \in BOOLEAN, hits \in Hits :
          Done("search_internet", data,
               execute("search_internet", data,
               [searchOk |-> searchOk, hits |-> hits]))

ExecScheduleMeeting ==
    /\ last = Idle
    /\ \E data \in SchedulePayloads, env \in ScheduleEnvs :
          Done("schedule_meeting", data,
               execute("schedule_meeting", data, env))

ExecScheduleTimedMeeting ==
    /\ last = Idle
    /\ \E data \in TimedSchedulePayloads, env \in ScheduleEnvs :
          Done("schedule_meeting", data,
               execute("schedule_meeting", data, env))

ExecAddCalendarEvent ==
    /\ last = Idle
    /\ \E data \in AddEventPayloads, create \in {"ok", "fail", "raise"},
          failAt \in {"none", "commit"} :
          Done("add_calendar_event", data,
               execute("add_calendar_event", data,
               [create |-> create, failAt |-> failAt]))

ExecListCalendarEvents ==
    /\ last = Idle
    /\ \E data \in {Null, ObjectArray}, remote \in {"ok", "fail"},
          listing \in RemoteListings, failAt \in {"none", "query"} :
          \E rows \in UpcomingOrder :
              Done("list_calendar_events", data,
                   execute("list_calendar_events", data,
                   [remote |-> remote, listing |-> listing,
                   failAt |-> failAt, rows |-> rows]))

ExecCancelCalendarEvent ==
    /\ last = Idle
    /\ \E data \in CancelPayloads, failAt \in {"none", "commit", "query"},
          k \in 1..MaxEvents, delete \in {"ok", "fail"} :
          Done("cancel_calendar_event", data,
               execute("cancel_calendar_event", data,
               [failAt |-> failAt, first |-> k, delete |-> delete]))

ExecUnknown ==
    /\ last = Idle
    /\ \E intent \in UnknownIntents,
          data \in {Null, EmptyObject, ObjectArray} :
          Done(intent, data, execute(intent, data, [failAt |-> "none"]))

(* the application starts the scheduler when it starts up (main.py) *)
Start ==
    /\ last = Idle
    /\ ~started
    /\ running' = TRUE
    /\ started' = TRUE
    /\ UNCHANGED <<now, tasks, shopping, events, actions, jobs,
                   scheduled_reminders, nextGid, SMTP_USER, last, inflight,
                   reminded>>

(* wall-clock time passes between calls *)
Tick ==
    /\ last = Idle
    /\ now < MaxTime
    /\ now' = now + 1
    /\ UNCHANGED <<tasks, shopping, events, actions, jobs,
                   scheduled_reminders, started, nextGid, SMTP_USER, last,
                   running, inflight, reminded>>

(* the caller takes the result of the call *)
Respond ==
    /\ last # Idle
    /\ last' = Idle
    /\ UNCHANGED <<now, tasks, shopping, events, actions, jobs,
                   scheduled_reminders, started, nextGid, SMTP_USER, running,
                   inflight, reminded>>

Init ==
    /\ now = 0
    /\ tasks = {}
    /\ shopping = {}
    /\ events = {}
    /\ actions = {}
    /\ jobs = {}
    /\ scheduled_reminders = {}
    /\ started = FALSE
    /\ running = FALSE
    /\ inflight = {}
    /\ reminded = {}
    /\ nextGid = 1
    /\ SMTP_USER \in {<<>>, Owner}
    /\ last = Idle

(***************************************************************************)
(* Name normalization on its own: the terms are stems with and without a   *)
(* suffix of the list, in lower case, in upper case and with blanks        *)
(* around.                                                                 *)
(***************************************************************************)
MaxStem == 3

Stems == UNION {[1..n -> {"m", "e", "l"}] : n \in 0..MaxStem}

UpperChar(c) ==
    IF \E i \in DOMAIN LowerChars : LowerChars[i] = c
    THEN UpperChars[CHOOSE i \in DOMAIN LowerChars : LowerChars[i] = c]
    ELSE c

Upper(s) == [i \in DOMAIN s |-> UpperChar(s[i])]

Terms ==
    LET plain == Stems \cup
                 {st \o Suffixes[i] : st \in Stems, i \in DOMAIN Suffixes}
    IN  plain \cup {Upper(t) : t \in plain}
              \cup {<<" ">> \o Upper(t) \o <<" ", " ">> : t \in plain}

(* lines 326-333 for one item_name *)
Normalize ==
    /\ last = Idle
    /\ \E term \in Terms :
          last' = [Idle EXCEPT
                      !.intent = "normalize",
                      !.data = [shape |-> "object", item_name |-> term],
                      !.result = [success |-> TRUE,
                                  search_term |-> NormalizeTerm(term)]]
    /\ UNCHANGED <<now, tasks, shopping, events, actions, jobs,
                   scheduled_reminders, started, nextGid, SMTP_USER, running,
                   inflight, reminded>>

NextNormalize ==
    \/ Normalize
    \/ Respond

SpecNormalize == Init /\ [][NextNormalize]_vars

NextTasks ==
    \/ ExecAddTask
    \/ ExecListTasks
    \/ ExecCompleteTask
    \/ ExecDeleteTask
    \/ Tick
    \/ Respond

SpecTasks == Init /\ [][NextTasks]_vars

NextShopping ==
    \/ ExecAddShoppingItem
    \/ ExecListShopping
    \/ ExecRemoveShoppingItem
    \/ Respond

SpecShopping == Init /\ [][NextShopping]_vars

(* the two lists together, MaxRows rows in all *)
RowsWithin ==
    Cardinality(tasks) + Cardinality(shopping) + Cardinality(events)
        + Cardinality(actions) <= MaxRows

NextLists ==
    \/ ExecAddTask /\ RowsWithin'
    \/ ExecCompleteTask
    \/ ExecDeleteTask
    \/ ExecAddShoppingItem /\ RowsWithin'
    \/ ExecRemoveShoppingItem
    \/ Respond

SpecLists == Init /\ [][NextLists]_vars

NextCalendar ==
    \/ Start
    \/ ExecScheduleMeeting
    \/ ExecCancelCalendarEvent
    \/ Tick
    \/ Respond

SpecCalendar == Init /\ [][NextCalendar]_vars

(***************************************************************************)
(* The reminder jobs in the background.  The scheduler dispatches a job    *)
(* that is due from its event loop, between two requests, and takes it     *)
(* out of the job store (a DateTrigger runs once); _send_reminder_email    *)
(* is a plain function, which the scheduler runs on a worker thread: the   *)
(* email goes out some time after the dispatch.                            *)
(***************************************************************************)

(* the application shuts the scheduler down (main.py); whether the job     *)
(* store keeps its jobs over a shutdown is the scheduler library's affair  *)
Stop ==
    /\ last = Idle
    /\ started
    /\ started' = stop(Begin).started
    /\ running' = stop(Begin).running
    /\ \E kept \in BOOLEAN : jobs' = IF kept THEN jobs ELSE {}
    /\ UNCHANGED <<now, tasks, shopping, events, actions,
                   scheduled_reminders, nextGid, SMTP_USER, last, inflight,
                   reminded>>

(* a job that is due is dispatched *)
Fire ==
    /\ last = Idle
    /\ running
    /\ \E j \in jobs :
          /\ j.run_date <= now
          /\ jobs' = jobs \ {j}
          /\ inflight' = inflight \cup {j}
    /\ UNCHANGED <<now, tasks, shopping, events, actions,
                   scheduled_reminders, started, nextGid, SMTP_USER, last,
                   running, reminded>>

(* the event of the remote id is cancelled in the store *)
IsCancelled(event_id) ==
    \E r \in events : r.google_event_id = event_id /\ r.status = "cancelled"

(* _send_reminder_email of a dispatched job: one send_email, whose failure *)
(* is printed.  `late` says the event was cancelled by then, `nth` counts  *)
(* the reminders of the job.                                               *)
Deliver ==
    /\ last = Idle
    /\ \E j \in inflight, ok \in BOOLEAN :
          /\ inflight' = inflight \ {j}
          /\ reminded' =
                IF Delivered(ok)
                THEN reminded \cup
                     {[event_id |-> j.event_id, role |-> j.role,
                       late |-> IsCancelled(j.event_id),
                       nth |-> 1 + Cardinality(
                                  {e \in reminded :
                                      /\ e.event_id = j.event_id
                                      /\ e.role = j.role})]}
                ELSE reminded
    /\ UNCHANGED <<now, tasks, shopping, events, actions, jobs,
                   scheduled_reminders, started, nextGid, SMTP_USER, last,
                   running>>

(* the requests that register and remove reminder jobs: a meeting with or *)
(* without an attendee, whose row is committed or not, and a cancellation  *)
(* by id or by title                                                       *)
ReminderEnvs ==
    {[create |-> "ok", inviteOk |-> TRUE, confirmOk |-> TRUE,
      failAt |-> f, drift |-> NoDrift] : f \in {"none", "commit"}}

ExecRemindedMeeting ==
    /\ last = Idle
    /\ \E data \in MeetingObjects, env \in ReminderEnvs :
          Done("schedule_meeting", data,
               execute("schedule_meeting", data, env))

ExecCancelReminded ==
    /\ last = Idle
    /\ \E data \in {[shape |-> "object", event_id |-> i] :
                        i \in 1..MaxEvents}
                   \cup {[shape |-> "object", title |-> Wmere]},
          failAt \in {"none", "commit"} :
          Done("cancel_calendar_event", data,
               execute("cancel_calendar_event", data,
               [failAt |-> failAt, first |-> 1, delete |-> "ok"]))

(* /status: len(meeting_scheduler.scheduled_reminders) *)
pending_reminders == Cardinality(scheduled_reminders)

NextReminders ==
    \/ Start
    \/ Stop
    \/ ExecRemindedMeeting
    \/ ExecCancelReminded
    \/ Tick
    \/ Fire
    \/ Deliver
    \/ Respond

SpecReminders == Init /\ [][NextReminders]_vars

(* every intent, the clock standing still: MaxDispatchRows rows in the     *)
(* two lists, or else as many events, logged actions and remote events;    *)
(* the list handlers and the others use different tables                   *)
FewRows ==
    /\ Cardinality(tasks) + Cardinality(shopping) <= MaxDispatchRows
    /\ Cardinality(events) <= MaxDispatchRows
    /\ Cardinality(actions) <= MaxDispatchRows
    /\ nextGid <= MaxDispatchRows + 1
    /\ \/ tasks = {} /\ shopping = {}
       \/ events = {} /\ actions = {} /\ nextGid = 1

NextDispatch ==
    \/ ExecAddTask /\ FewRows'
    \/ ExecListTasks
    \/ ExecCompleteTask
    \/ ExecDeleteTask
    \/ ExecAddShoppingItem /\ FewRows'
    \/ ExecListShopping
    \/ ExecRemoveShoppingItem
    \/ ExecSendEmail /\ FewRows'
    \/ ExecReadEmails
    \/ ExecReadLastEmail
    \/ ExecSearchEmails
    \/ ExecSummarizeEmail
    \/ ExecSearchInternet
    \/ ExecScheduleMeeting /\ FewRows' /\ UNCHANGED now
    \/ ExecScheduleTimedMeeting /\ FewRows' /\ UNCHANGED now
    \/ ExecAddCalendarEvent /\ FewRows'
    \/ ExecListCalendarEvents
    \/ ExecCancelCalendarEvent
    \/ ExecUnknown
    \/ Respond

SpecDispatch == Init /\ [][NextDispatch]_vars


(***************************************************************************)
(* Properties.                                                             *)
(***************************************************************************)
Adds == {"add_task", "add_shopping_item"}

SeqBag(q) ==
    [x \in {q[i] : i \in DOMAIN q} |->
        Cardinality({i \in DOMAIN q : q[i] = x})]

TitleBag(rows) ==
    [t \in {r.title : r \in rows} |->
        Cardinality({r \in rows : r.title = t})]

NameBag(rows) ==
    [n \in {r.name : r \in rows} |->
        Cardinality({r \in rows : r.name = n})]

(* handling the element raises: it is no object (.get fails), or its       *)
(* name is null (the flush of the NOT NULL column fails)                   *)
ElementFails(e) ==
    \/ ~IsObject(e)
    \/ Get(e, "title", <<>>) = NoneStr
    \/ Get(e, "name", <<>>) = NoneStr

C7_FullList ==
    [][/\ (last'.intent = "add_task" /\ last'.result.success)
          => /\ SeqBag(last'.result.full_list) =
                   TitleBag({r \in tasks : ~r.is_completed} \cup (tasks' \ tasks))
             /\ last'.result.total_tasks = Len(last'.result.full_list)
       /\ (last'.intent = "add_shopping_item" /\ last'.result.success)
          => /\ SeqBag(last'.result.full_list) =
                   NameBag({r \in shopping : ~r.is_purchased}
                           \cup (shopping' \ shopping))
             /\ last'.result.total_items = Len(last'.result.full_list)]_vars

(* a successful add while a completed task is in the table *)
C7_Witness ==
    /\ last.intent = "add_task"
    /\ last.result.success
    /\ \E r \in tasks : r.is_completed
    /\ Len(last.result.full_list) = 1

(* C8: the shape of the payload alone selects the mode of add_task and     *)
(* add_shopping_item: an object creates one entity and returns its id; an  *)
(* array of N objects, N >= 0, creates N entities and returns count = N    *)
(* and their names, with no single-entity id.                              *)
C8_ShapeSelectsMode ==
    [][(last'.intent \in Adds /\ last'.result.success)
       => LET new == IF last'.intent = "add_task" THEN tasks' \ tasks
                     ELSE shopping' \ shopping
              key == IF last'.intent = "add_task" THEN "task_id"
                     ELSE "item_id"
              r == last'.result
          IN  /\ IsArray(last'.data)
                 => /\ Cardinality(new) = Len(last'.data.items)
                    /\ "count" \in DOMAIN r
                    /\ r.count = Len(last'.data.items)
                    /\ Len(r.message) = Len(last'.data.items)
                    /\ key \notin DOMAIN r
              /\ IsObject(last'.data)
                 => /\ Cardinality(new) = 1
                    /\ key \in DOMAIN r
                    /\ \A e \in new : e.id = r[key]]_vars

(* the same statement for the arrays of one element or more *)
C8_NonEmptyArrays ==
    [][(last'.intent \in Adds /\ last'.result.success /\ IsArray(last'.data)
        /\ last'.data.items # <<>>)
       => LET new == IF last'.intent = "add_task" THEN tasks' \ tasks
                     ELSE shopping' \ shopping
              r == last'.result
          IN  /\ Cardinality(new) = Len(last'.data.items)
              /\ "count" \in DOMAIN r
              /\ r.count = Len(last'.data.items)
              /\ {"task_id", "item_id"} \cap DOMAIN r = {}]_vars

ByName(data) ==
    /\ IsObject(data)
    /\ "item_id" \notin DOMAIN data
    /\ "item_name" \in DOMAIN data

StoreFault(r) == ~r.success /\ r.error = "OperationalError"

(* C9: remove_shopping_item by name, the store answering: when the         *)
(* normalized name or the raw name is a case-insensitive substring of the  *)
(* name of an active item, such an item is removed from the active items   *)
(* and the call returns success=true; when neither is a substring of any   *)
(* active item's name, the call returns the not-found failure and the      *)
(* table is unchanged.                                                     *)
C9_RemoveByName ==
    [][(/\ last'.intent = "remove_shopping_item"
        /\ ByName(last'.data)
        /\ ~StoreFault(last'.result))
       => LET raw == last'.data.item_name
              hit(r) == \/ IsSubstringCI(NormalizeTerm(raw), r.name)
                        \/ IsSubstringCI(raw, r.name)
              found == {r \in shopping : ~r.is_purchased /\ hit(r)}
          IN  IF found # {}
              THEN /\ last'.result.success
                   /\ \E r \in found :
                         r \notin {x \in shopping' : ~x.is_purchased}
              ELSE /\ ~last'.result.success
                   /\ last'.result.error = ItemNotFound
                   /\ shopping' = shopping]_vars

HasWildcard(w) == \E i \in DOMAIN w : w[i] \in {"_", "%"}

(* the same statement for the names that hold no LIKE wildcard *)
C9_NoWildcard ==
    [][(/\ last'.intent = "remove_shopping_item"
        /\ ByName(last'.data)
        /\ ~HasWildcard(last'.data.item_name)
        /\ ~StoreFault(last'.result))
       => LET raw == last'.data.item_name
              hit(r) == \/ IsSubstringCI(NormalizeTerm(raw), r.name)
                        \/ IsSubstringCI(raw, r.name)
              found == {r \in shopping : ~r.is_purchased /\ hit(r)}
          IN  IF found # {}
              THEN /\ last'.result.success
                   /\ \E r \in found :
                         r \notin {x \in shopping' : ~x.is_purchased}
              ELSE /\ ~last'.result.success
                   /\ last'.result.error = ItemNotFound
                   /\ shopping' = shopping]_vars

ListedTasks(data) ==
    {r \in tasks :
        /\ ~r.is_completed
        /\ "category" \in DOMAIN data => r.category = data.category
        /\ Get(data, "today", FALSE) =>
              /\ r.due_date # NoneInt
              /\ r.due_date \div DayLen = now \div DayLen}

IsListing(l) ==
    l.intent = "list_tasks" /\ l.result.success

(* C10 as stated: list_tasks returns the active tasks by due_date          *)
(* ascending, every task with no due_date after all the dated ones; with   *)
(* today=true only the tasks due within the current day, none without a    *)
(* due_date.                                                               *)
C10_NullsLast ==
    IsListing(last)
    => LET rows == last.result.tasks
       IN  /\ {rows[i] : i \in DOMAIN rows} = ListedTasks(PayloadOrEmpty(last.data))
           /\ Len(rows) = Cardinality(ListedTasks(PayloadOrEmpty(last.data)))
           /\ \A i, j \in DOMAIN rows :
                 i < j => /\ rows[i].due_date = NoneInt
                             => rows[j].due_date = NoneInt
                          /\ rows[j].due_date # NoneInt
                             => rows[i].due_date <= rows[j].due_date

(* C10, amended: list_tasks returns the active tasks by due_date           *)
(* ascending, every task with no due_date BEFORE all the dated ones; with  *)
(* today=true only the tasks due within the current day, none without a    *)
(* due_date.                                                               *)
C10_NullsFirst ==
    IsListing(last)
    => LET rows == last.result.tasks
       IN  /\ {rows[i] : i \in DOMAIN rows} = ListedTasks(PayloadOrEmpty(last.data))
           /\ Len(rows) = Cardinality(ListedTasks(PayloadOrEmpty(last.data)))
           /\ \A i, j \in DOMAIN rows :
                 i < j => /\ rows[j].due_date = NoneInt
                             => rows[i].due_date = NoneInt
                          /\ rows[i].due_date # NoneInt
                             => rows[i].due_date <= rows[j].due_date

(* a listing of a dated task and a task with no due date *)
C10_Witness ==
    /\ IsListing(last)
    /\ Len(last.result.tasks) = 2
    /\ last.result.tasks[1].due_date = NoneInt
    /\ last.result.tasks[2].due_date # NoneInt

(* a listing with today=true that leaves out a task with no due date and   *)
(* a task due another day                                                  *)
C10_WitnessToday ==
    /\ IsListing(last)
    /\ Get(last.data, "today", FALSE)
    /\ Len(last.result.tasks) = 1
    /\ \E r \in tasks : ~r.is_completed /\ r.due_date = NoneInt

(***************************************************************************)
(* The dispatcher, meetings, reminders and transactions.                   *)
(***************************************************************************)
(* C1: whatever the intent (registered or not), whatever the shape of the  *)
(* payload (object, array, null) and whatever the store or a collaborator  *)
(* raises, execute returns a result with a boolean success field and no    *)
(* exception reaches its caller; for an intent outside the registry the    *)
(* result is a failure with an error, the store, the jobs and the session  *)
(* are as they were and no collaborator was called.                        *)
C1_AlwaysAResult ==
    last # Idle =>
        /\ ~last.propagated
        /\ "success" \in DOMAIN last.result
        /\ last.result.success \in BOOLEAN
        /\ last.intent \notin Registry =>
              /\ ~last.result.success
              /\ "error" \in DOMAIN last.result
              /\ last.commits = 0
              /\ last.calls = <<>>
              /\ last.sent = <<>>
              /\ ~last.dirty
              /\ Store = last.before.store
              /\ jobs = last.before.jobs

(* the store failed under a handler and the caller got a failure result *)
C1_Witness ==
    /\ last.intent = "list_tasks"
    /\ last.result = Failure("OperationalError")
    /\ ~last.propagated

(* C2: schedule_meeting with a start time at or before the instant of the  *)
(* call returns success=false; no remote calendar call was made, no email  *)
(* sent, nothing committed, the events, the logged actions and the         *)
(* reminder jobs are as they were before the call.                         *)
C2_PastStartRejected ==
    (/\ last.intent = "schedule_meeting"
     /\ IsObject(last.data)
     /\ MeetingStart(last.data) # NoneInt
     /\ MeetingStart(last.data) <= last.before.now)
    => /\ ~last.result.success
       /\ last.calls = <<>>
       /\ last.sent = <<>>
       /\ last.commits = 0
       /\ events = last.before.store.events
       /\ actions = last.before.store.actions
       /\ jobs = last.before.jobs
       /\ scheduled_reminders = last.before.scheduled_reminders

(* a meeting asked for the very instant of the call is turned down *)
C2_Witness ==
    /\ last.intent = "schedule_meeting"
    /\ IsObject(last.data)
    /\ MeetingStart(last.data) = last.before.now
    /\ last.result = Failure(NotFuture)

ScheduledOk == last.intent = "schedule_meeting" /\ last.result.success

Attendee(data) == Get(data, "attendee_email", NoneStr)

ReminderTime(data) ==
    MeetingStart(data) - Get(data, "reminder_hours", DefaultLead)

(* the reminder jobs of the event the call created *)
EventJobs == {j \in jobs : j.event_id = last.result.event_id}

Roles(js) == {j.role : j \in js}

(* the scheduler compares the reminder time with its own reading of the    *)
(* clock, the second of the call                                           *)
ReminderDue == ReminderTime(last.data) <= last.reads[2]

(* C3 as stated: after a successful schedule_meeting the event has no      *)
(* reminder job when its reminder time is not in the future, and           *)
(* otherwise one job (the organizer's, owner) when the attendee is absent  *)
(* or is the organizer, two (owner and attendee) when the attendee         *)
(* differs.                                                                *)
C3_JobCount ==
    ScheduledOk =>
        IF ReminderDue THEN EventJobs = {}
        ELSE IF ~Truthy(Attendee(last.data))
                \/ Attendee(last.data) = SMTP_USER
        THEN Cardinality(EventJobs) = 1 /\ Roles(EventJobs) = {"owner"}
        ELSE Cardinality(EventJobs) = 2
             /\ Roles(EventJobs) = {"owner", "attendee"}

(* the recipients of a reminder: the organizer when an organizer address   *)
(* is configured, the attendee when there is one who is not the organizer  *)
Recipients(data) ==
    (IF Truthy(SMTP_USER) THEN {"owner"} ELSE {}) \cup
    (IF Truthy(Attendee(data)) /\ Attendee(data) # SMTP_USER
     THEN {"attendee"} ELSE {})

(* C3: after a successful schedule_meeting the event has no reminder job   *)
(* when its reminder time is not in the future, and the call still         *)
(* succeeds; otherwise it has exactly one job for each distinct recipient: *)
(* the organizer when an organizer address is configured, the attendee     *)
(* when present and different from the organizer; each job runs at the     *)
(* reminder time and goes to its recipient.                                *)
C3_JobPerRecipient ==
    ScheduledOk =>
        /\ Roles(EventJobs) =
              IF ReminderDue THEN {} ELSE Recipients(last.data)
        /\ Cardinality(EventJobs) = Cardinality(Roles(EventJobs))
        /\ \A j \in EventJobs :
              /\ j.run_date = ReminderTime(last.data)
              /\ j.to = IF j.role = "owner" THEN SMTP_USER
                        ELSE Attendee(last.data)

(* organizer and a different attendee: two jobs *)
C3_Witness ==
    /\ ScheduledOk
    /\ SMTP_USER = Owner
    /\ Attendee(last.data) = Guest
    /\ Roles(EventJobs) = {"owner", "attendee"}

(* a reminder already due: no job, and success all the same *)
C3_WitnessNoJob == ScheduledOk /\ ReminderDue /\ EventJobs = {}

Cancels == last.intent = "cancel_calendar_event" /\ IsObject(last.data)

KeyedById(data) == TruthyInt(Get(data, "event_id", NoneInt))

KeyedByRemoteId(data) ==
    ~KeyedById(data) /\ TruthyInt(Get(data, "google_event_id", NoneInt))

KeyedByTitle(data) ==
    /\ ~KeyedById(data)
    /\ ~TruthyInt(Get(data, "google_event_id", NoneInt))
    /\ Truthy(Get(data, "title", NoneStr))

(* the rows a cancel request names, whatever their status *)
Addressed(data, rows) ==
    IF KeyedById(data) THEN {r \in rows : r.id = data.event_id}
    ELSE IF KeyedByRemoteId(data)
    THEN {r \in rows : r.google_event_id = data.google_event_id}
    ELSE IF KeyedByTitle(data)
    THEN {r \in rows : ILikeContains(r.title, data.title)}
    ELSE {}

(* the request names events, all of them cancelled already, as the second  *)
(* of two identical requests does                                          *)
CancelsAgain ==
    /\ Cancels
    /\ Addressed(last.data, last.before.store.events) # {}
    /\ \A r \in Addressed(last.data, last.before.store.events) :
          r.status = "cancelled"
    /\ ~StoreFault(last.result)

(* a successful cancel: one of the named events is now cancelled, it has   *)
(* no reminder job left, the other rows and the other jobs are untouched   *)
CancelClears ==
    (Cancels /\ last.result.success) =>
        \E e \in Addressed(last.data, last.before.store.events) :
            /\ events = (last.before.store.events \ {e}) \cup
                        {[e EXCEPT !.status = "cancelled",
                                   !.updated_at = last.reads[1]]}
            /\ jobs = {j \in last.before.jobs :
                          j.event_id # e.google_event_id}
            /\ e.google_event_id \notin scheduled_reminders

(* C4 as stated: a cancel by local id, remote id or title leaves the       *)
(* event cancelled and without reminder jobs, and the same request made    *)
(* again succeeds too and leaves jobs and rows exactly as they were.       *)
C4_CancelTwice ==
    /\ CancelClears
    /\ CancelsAgain =>
          /\ last.result.success
          /\ jobs = last.before.jobs
          /\ events = last.before.store.events

SansStamp(rows) == {[r EXCEPT !.updated_at = 0] : r \in rows}

(* C4: a cancel by local id, remote id or title leaves the event cancelled *)
(* and without reminder jobs.  Made again by local id or remote id it      *)
(* succeeds, removing jobs that are not there without error, and leaves    *)
(* the jobs as they were and the rows as they were but for updated_at,     *)
(* which it sets again.  By title only events still scheduled are looked   *)
(* at: the event a cancel by title cancels was scheduled until then, and   *)
(* when no scheduled event bears the title the call returns the not-found  *)
(* failure and changes nothing.                                            *)
C4_CancelAgainByKey ==
    /\ CancelClears
    /\ (CancelsAgain /\ ~KeyedByTitle(last.data)) =>
          /\ last.result.success
          /\ jobs = last.before.jobs
          /\ SansStamp(events) = SansStamp(last.before.store.events)
          /\ \A r \in Addressed(last.data, events) :
                r.status = "cancelled" /\ r.updated_at = last.reads[1]
    /\ (Cancels /\ KeyedByTitle(last.data) /\ last.result.success) =>
          \E e \in Addressed(last.data, last.before.store.events) :
              /\ e.status = "scheduled"
              /\ [e EXCEPT !.status = "cancelled",
                           !.updated_at = last.reads[1]] \in events
    /\ (/\ Cancels
        /\ KeyedByTitle(last.data)
        /\ ~StoreFault(last.result)
        /\ \A r \in Addressed(last.data, last.before.store.events) :
              r.status = "cancelled") =>
          /\ last.result = Failure(EventNotFound)
          /\ jobs = last.before.jobs
          /\ events = last.before.store.events

(* a cancel by local id of an event cancelled before: success, and the     *)
(* removal of its jobs, which are no longer registered, changes nothing    *)
C4_Witness ==
    /\ CancelsAgain
    /\ KeyedById(last.data)
    /\ last.result.success
    /\ "jobs.remove.attendee" \in {last.calls[i] : i \in DOMAIN last.calls}
    /\ jobs = last.before.jobs

(* a first cancel that took the event's two reminder jobs away *)
C4_WitnessFirst ==
    /\ Cancels
    /\ last.result.success
    /\ Cardinality(last.before.jobs \ jobs) = 2

(* C5 as stated: whatever the intent, one call of execute commits at most  *)
(* once.                                                                   *)
C5_OneCommit == last.commits <= 1

(* the AgentAction rows the call added *)
NewActions == {r \in actions : r.id \notin Ids(last.before.store.actions)}

(* C5: but for send_email, one call of execute commits at most once: its   *)
(* writes reach the store together or not at all, and none is left         *)
(* pending in the session.  send_email commits twice, the pending          *)
(* AgentAction row before the send and its status after it: after one      *)
(* commit only, the row is in the store as pending and the call has        *)
(* failed; after two, the row says completed or failed.                    *)
C5_OneCommitButSend ==
    /\ ~last.dirty
    /\ (last # Idle /\ last.commits = 0) => Store = last.before.store
    /\ last.intent # "send_email" => last.commits <= 1
    /\ last.intent = "send_email" =>
          /\ last.commits <= 2
          /\ last.commits >= 1 =>
                /\ Cardinality(NewActions) = 1
                /\ actions \ NewActions = last.before.store.actions
          /\ last.commits = 1 =>
                /\ ~last.result.success
                /\ \A r \in NewActions : r.status = "pending"
          /\ last.commits = 2 =>
                \A r \in NewActions : r.status \in {"completed", "failed"}

(* the email went out, the second commit failed: the row stays pending *)
C5_Witness ==
    /\ last.intent = "send_email"
    /\ last.commits = 1
    /\ last.sent # <<>>
    /\ \E r \in NewActions : r.status = "pending"

(***************************************************************************)
(* Results, failures of the collaborators, dates and event rows.           *)
(***************************************************************************)
(* C11: every result of execute with success=false carries an error,       *)
(* whatever the intent and whatever made the call fail.                    *)
C11_FailureHasError ==
    (last # Idle /\ ~last.result.success) => "error" \in DOMAIN last.result

(* but for search_internet, every failed result carries an error *)
C11_FailureHasErrorButSearch ==
    (last # Idle /\ ~last.result.success /\ last.intent # "search_internet")
        => "error" \in DOMAIN last.result

(* the search collaborator failed: the result fails and names no error *)
C11_SearchFailed ==
    /\ last.intent = "search_internet"
    /\ last.calls = <<"search">>
    /\ ~last.result.success
    /\ "error" \notin DOMAIN last.result

(* the remote creation was attempted and failed *)
CreationFailed ==
    /\ last.intent = "schedule_meeting"
    /\ last.calls # <<>>
    /\ last.calls[1] = "calendar.create"
    /\ ~last.inner.success

(* C12: when the creation of the remote calendar event fails during        *)
(* schedule_meeting, the call returns success=false with the scheduler's   *)
(* error; nothing else was called: no invitation and no confirmation was   *)
(* sent or attempted, nothing was committed, the events, the logged        *)
(* actions and the reminder jobs are as they were.                         *)
C12_CreationFailureAborts ==
    CreationFailed =>
        /\ last.result = last.inner
        /\ ~last.result.success
        /\ last.calls = <<"calendar.create">>
        /\ last.sent = <<>>
        /\ last.commits = 0
        /\ ~last.dirty
        /\ events = last.before.store.events
        /\ actions = last.before.store.actions
        /\ jobs = last.before.jobs
        /\ scheduled_reminders = last.before.scheduled_reminders

(* the creation failed for a meeting with an attendee and an organizer,    *)
(* both of whom would have been written to                                 *)
C12_Witness ==
    /\ CreationFailed
    /\ last.result = Failure(CalendarFailed)
    /\ Attendee(last.data) = Guest
    /\ SMTP_USER = Owner

(* the remote event was created: the scheduler went on to read the clock   *)
(* for the reminder                                                        *)
RemoteCreated == last.intent = "schedule_meeting" /\ Len(last.reads) > 1

(* the CalendarEvent rows the call added *)
NewEvents == {r \in events : r.id \notin Ids(last.before.store.events)}

(* the row schedule_meeting persists for its payload *)
MeetingRow(data) ==
    [NewEvent(last.inner.event_id, Get(data, "title", DefaultMeetingTitle),
              MeetingStart(data), MeetingEnd(data, MeetingStart(data)),
              Attendee(data), ReminderTime(data), 0)
     EXCEPT !.id = NextId(last.before.store.events)]

(* C13: once the remote event is created, and the store taking the         *)
(* commit, schedule_meeting returns success=true, persists the             *)
(* CalendarEvent row of its payload with status scheduled and registers    *)
(* the reminder jobs of its payload, whether the invitation and the        *)
(* confirmation were delivered or not.                                     *)
C13_EmailsDoNotDecide ==
    (RemoteCreated /\ ~StoreFault(last.result)) =>
        /\ last.result.success
        /\ SansStamp(NewEvents) = {MeetingRow(last.data)}
        /\ events \ NewEvents = last.before.store.events
        /\ Roles(EventJobs) =
              IF ReminderDue THEN {} ELSE Recipients(last.data)
        /\ jobs \ EventJobs = last.before.jobs

(* neither the invitation nor the confirmation was delivered, though both  *)
(* were attempted for a configured organizer: the meeting stands, with     *)
(* its row and its two reminder jobs                                       *)
C13_Witness ==
    /\ RemoteCreated
    /\ last.result.success
    /\ SMTP_USER = Owner
    /\ Attendee(last.data) = Guest
    /\ last.sent = <<>>
    /\ \E i \in DOMAIN last.calls : last.calls[i] = "email.invitation"
    /\ \E r \in NewEvents : r.status = "scheduled"
    /\ Roles(EventJobs) = {"owner", "attendee"}

(* the remote deletion of the cancelled event failed *)
DeleteFailed ==
    /\ last.intent = "cancel_calendar_event"
    /\ \E i \in DOMAIN last.calls : last.calls[i] = "calendar.delete.failed"

(* C14: when the calendar's delete_event fails during                      *)
(* cancel_calendar_event, execute returns success=false with the           *)
(* provider's error.                                                       *)
C14_DeleteFailureSurfaces ==
    DeleteFailed =>
        /\ ~last.result.success
        /\ "error" \in DOMAIN last.result

(* the remote deletion failed and the call reports the event cancelled *)
C14_DeleteFailureLost ==
    /\ DeleteFailed
    /\ last.result.success
    /\ \E r \in events : /\ r.status = "cancelled"
                         /\ r \notin last.before.store.events

(* the date fields each handler parses *)
DateFields(intent) ==
    CASE intent = "add_task" -> {"due_date"}
      [] intent = "schedule_meeting" -> {"start_time", "end_time"}
      [] intent = "add_calendar_event" -> {"start_time"}
      [] OTHER -> {}

(* the call took a payload with a date that does not parse *)
MalformedDate ==
    /\ last # Idle
    /\ IsObject(last.data)
    /\ \E k \in DateFields(last.intent) \cap DOMAIN last.data :
          last.data[k] = Malformed

(* C15: a payload with a malformed date (add_task due_date,                *)
(* schedule_meeting start_time and end_time, add_calendar_event            *)
(* start_time) is a validation failure: success=false, the store is not    *)
(* mutated and no remote call is made.                                     *)
C15_MalformedDateRejected ==
    MalformedDate =>
        /\ ~last.result.success
        /\ Store = last.before.store
        /\ last.calls = <<>>

(* add_task with a due_date that does not parse adds the task, undated *)
C15_TaskAddedUndated ==
    /\ MalformedDate
    /\ last.intent = "add_task"
    /\ last.result.success
    /\ \E r \in tasks : /\ r \notin last.before.store.tasks
                        /\ r.due_date = NoneInt

(* schedule_meeting with an end_time that does not parse creates the       *)
(* remote event before it fails                                            *)
C15_MeetingCreatedRemotely ==
    /\ MalformedDate
    /\ last.intent = "schedule_meeting"
    /\ last.calls # <<>>
    /\ last.calls[1] = "calendar.create"
    /\ last.inner.success

EventStatuses == {"scheduled", "cancelled"}

(* the row of events with the given id *)
EventRow(rows, id) == CHOOSE r \in rows : r.id = id

(* one step leaves each status alone or cancels a scheduled row, and a new *)
(* row starts scheduled                                                    *)
StatusStep ==
    \A r \in events' :
        IF r.id \in Ids(events)
        THEN \/ r.status = EventRow(events, r.id).status
             \/ /\ EventRow(events, r.id).status = "scheduled"
                /\ r.status = "cancelled"
        ELSE r.status = "scheduled"

(* C16: each CalendarEvent row has status scheduled or cancelled; a row is *)
(* created scheduled; the only status change is scheduled to cancelled,    *)
(* and no row is dropped, so a cancelled row stays cancelled under every   *)
(* later operation of the dispatcher.                                      *)
C16_StatusOnlyCancels ==
    /\ [](\A r \in events : r.status \in EventStatuses)
    /\ [][StatusStep /\ Ids(events) \subseteq Ids(events')]_vars

(* cancel_calendar_event succeeded on a row that was cancelled before the  *)
(* call: the row is still cancelled                                        *)
C16_Witness ==
    /\ Cancels
    /\ last.result.success
    /\ "event_id" \in DOMAIN last.data
    /\ \E r \in last.before.store.events :
          /\ r.id = last.data.event_id
          /\ r.status = "cancelled"
          /\ EventRow(events, r.id).status = "cancelled"

(* C17: every CalendarEvent row persisted by schedule_meeting or           *)
(* add_calendar_event, whatever the payload's start_time, end_time and     *)
(* duration_minutes, has end_time >= start_time.                           *)
C17_EndNotBeforeStart ==
    \A r \in events : r.end_time >= r.start_time

(* schedule_meeting succeeded and persisted a row that ends before it      *)
(* starts                                                                  *)
C17_MeetingEndsBeforeStart ==
    /\ last.intent = "schedule_meeting"
    /\ last.result.success
    /\ \E r \in events : /\ r \notin last.before.store.events
                         /\ r.end_time < r.start_time

(* add_calendar_event succeeded and persisted a row that ends before it    *)
(* starts                                                                  *)
C17_EventEndsBeforeStart ==
    /\ last.intent = "add_calendar_event"
    /\ last.result.success
    /\ \E r \in events : /\ r \notin last.before.store.events
                         /\ r.end_time < r.start_time

(* remove_shopping_item resolved an item and returned success *)
Removed == last.intent = "remove_shopping_item" /\ last.result.success

(* the names the shopping lists show: those of the rows not yet purchased *)
OnTheList == {r \in shopping : ~r.is_purchased}

(* C18: remove_shopping_item on a resolved item keeps the row with         *)
(* is_purchased=true when the payload's purchased flag is set and deletes  *)
(* the row when it is not; every other shopping row is unchanged, and the  *)
(* item is in no list afterwards: list_shopping returns rows not yet       *)
(* purchased only, and so does the full_list of an add.                    *)
C18_PurchasedOrDeleted ==
    /\ Removed =>
          \E item \in last.before.store.shopping :
              /\ shopping =
                    (last.before.store.shopping \ {item}) \cup
                    (IF Get(last.data, "purchased", FALSE)
                     THEN {[item EXCEPT !.is_purchased = TRUE]}
                     ELSE {})
              /\ last.result.action =
                    IF Get(last.data, "purchased", FALSE)
                    THEN "mark_purchased" ELSE "remove_shopping_item"
              /\ item.id \notin Ids(OnTheList)
    /\ (last.intent = "list_shopping" /\ last.result.success) =>
          \A i \in DOMAIN last.result.items : last.result.items[i] \in OnTheList
    /\ (last.intent = "add_shopping_item" /\ last.result.success) =>
          SeqBag(last.result.full_list) = NameBag(OnTheList)

(* an item not yet purchased was marked purchased: its row is kept, beside *)
(* another row that is as it was                                           *)
C18_Witness ==
    /\ Removed
    /\ Get(last.data, "purchased", FALSE)
    /\ \E item \in last.before.store.shopping, other \in shopping :
          /\ ~item.is_purchased
          /\ [item EXCEPT !.is_purchased = TRUE] \in shopping
          /\ other.id # item.id
          /\ other \in last.before.store.shopping

(* an item was removed without the flag: its row is gone, another row is   *)
(* as it was                                                               *)
C18_WitnessDeleted ==
    /\ Removed
    /\ ~Get(last.data, "purchased", FALSE)
    /\ \E item \in last.before.store.shopping, other \in shopping :
          /\ item.id \notin Ids(shopping)
          /\ other \in last.before.store.shopping

(* C19: the success result execute returns for schedule_meeting contains   *)
(* the event id, the meeting link and a field saying whether a reminder    *)
(* was scheduled.                                                          *)
C19_ResultFields ==
    (last.intent = "schedule_meeting" /\ last.result.success) =>
        {"event_id", "meet_link", "reminder_scheduled"}
            \subseteq DOMAIN last.result

(* the scheduler said a reminder was scheduled, the result of execute has  *)
(* the event id and the link and does not say it                           *)
C19_ReminderFieldDropped ==
    /\ last.intent = "schedule_meeting"
    /\ last.result.success
    /\ last.inner.success
    /\ last.inner.reminder_scheduled
    /\ {"event_id", "meet_link"} \subseteq DOMAIN last.result
    /\ last.result.event_id = last.inner.event_id
    /\ "reminder_scheduled" \notin DOMAIN last.result

(* the place of a call in the workflow of schedule_meeting: the remote     *)
(* event, the local row, the emails, the reminder jobs                     *)
StepOf(call) ==
    CASE call = "calendar.create" -> 1
      [] call = "db.commit" -> 2
      [] call \in {"email.invitation", "email.confirmation"} -> 3
      [] call \in {"jobs.add.owner", "jobs.add.attendee"} -> 4
      [] OTHER -> 0

(* C20: in every execution of schedule_meeting the remote event is         *)
(* created, then the local row is persisted, then the invitation and the   *)
(* confirmation are sent, then the reminder jobs are registered: no email  *)
(* is sent and no job is registered before the row is persisted.           *)
C20_StepsInOrder ==
    last.intent = "schedule_meeting" =>
        /\ \A i, j \in DOMAIN last.calls :
              StepOf(last.calls[i]) < StepOf(last.calls[j]) => i < j
        /\ (last.sent # <<>> \/ jobs # last.before.jobs) =>
              events # last.before.store.events

(* the commit of the row failed after the emails were delivered and the    *)
(* jobs registered: the call fails, with no row and with reminders pending *)
C20_NotifiedWithoutRow ==
    /\ last.intent = "schedule_meeting"
    /\ ~last.result.success
    /\ events = last.before.store.events
    /\ Len(last.sent) = 2
    /\ Roles(jobs \ last.before.jobs) = {"owner", "attendee"}
    /\ last.commits = 0

(* the call succeeded and the commit of the row was its last step, after   *)
(* both emails and both jobs                                               *)
C20_RowPersistedLast ==
    /\ last.intent = "schedule_meeting"
    /\ last.result.success
    /\ last.calls = <<"calendar.create", "email.invitation",
                      "email.confirmation", "jobs.add.owner",
                      "jobs.add.attendee", "db.commit">>

(* the call of the side effect a handler logs: the email of send_email,    *)
(* the remote event of schedule_meeting                                    *)
SideEffect(intent) ==
    IF intent = "send_email" THEN "email.send" ELSE "calendar.create"

Places(calls, c) == {i \in DOMAIN calls : calls[i] = c}

(* the call attempted its side effect *)
Attempted ==
    /\ last.intent \in {"send_email", "schedule_meeting"}
    /\ Places(last.calls, SideEffect(last.intent)) # {}

(* the side effect succeeded: the email was delivered, the meeting was     *)
(* scheduled                                                               *)
Effected ==
    IF last.intent = "send_email" THEN last.sent # <<>>
    ELSE last.inner.success

(* C21: for each side effect (an email of send_email, a meeting of         *)
(* schedule_meeting) an AgentAction row is committed before the side       *)
(* effect is attempted and is afterwards completed when the side effect    *)
(* succeeded and failed when it did not; no such row is left pending       *)
(* when the call returns.                                                  *)
C21_LoggedAround ==
    Attempted =>
        /\ \E i \in Places(last.calls, "db.commit") :
              \A j \in Places(last.calls, SideEffect(last.intent)) : i < j
        /\ NewActions # {}
        /\ \A r \in NewActions :
              r.status = IF Effected THEN "completed" ELSE "failed"

(* schedule_meeting wrote its AgentAction row after the remote event, the  *)
(* emails and the jobs, as completed from the start                        *)
C21_MeetingLoggedAfter ==
    /\ last.intent = "schedule_meeting"
    /\ last.result.success
    /\ last.calls[1] = "calendar.create"
    /\ Places(last.calls, "db.commit") = {Len(last.calls)}
    /\ \E r \in NewActions : r.status = "completed"

(* schedule_meeting failed at the remote event and left no AgentAction row *)
C21_MeetingFailureNotLogged ==
    /\ last.intent = "schedule_meeting"
    /\ Attempted
    /\ ~last.inner.success
    /\ NewActions = {}

(* send_email delivered the email, the commit of the new status failed,    *)
(* and the row is left pending                                             *)
C21_LeftPending ==
    /\ last.intent = "send_email"
    /\ last.sent # <<>>
    /\ ~last.result.success
    /\ \E r \in NewActions : r.status = "pending"

(* the suffixes in the order they are tried *)
SuffixOrder ==
    << <<"u", "r", "i", "l", "e">>, <<"e", "l", "e">>, <<"u", "l", "e">>,
       <<"u", "l">>, <<"l", "e">>, <<"i", "i">>, <<"a">> >>

(* r is s without the first suffix of the list that s ends with and that   *)
(* leaves a stem of more than `least` characters beyond `per` times the    *)
(* suffix length; r is s when there is none                                *)
FirstFitStripped(s, r, least, per) ==
    LET fits(i) == /\ EndsWith(s, SuffixOrder[i])
                   /\ Len(s) - Len(SuffixOrder[i]) >
                         per * Len(SuffixOrder[i]) + least
    IN  \/ /\ \A i \in DOMAIN SuffixOrder : ~fits(i)
           /\ r = s
        \/ \E i \in DOMAIN SuffixOrder :
              /\ fits(i)
              /\ \A k \in 1..(i - 1) : ~fits(k)
              /\ r \o SuffixOrder[i] = s

Normalized == last.intent = "normalize"

(* C22 as stated: the term is lowercased and trimmed, and the first suffix *)
(* of urile, ele, ule, ul, le, ii, a is stripped that the term ends with   *)
(* and whose remaining stem is longer than the suffix by more than 2       *)
(* characters; at most one suffix is stripped, and a term with no such     *)
(* suffix is left unchanged.                                               *)
C22_StemLongerThanSuffix ==
    Normalized =>
        FirstFitStripped(Strip(Lower(last.data.item_name)),
                         last.result.search_term, 2, 1)

(* C22, amended: the term is lowercased and trimmed, and the first suffix  *)
(* of urile, ele, ule, ul, le, ii, a is stripped that the term ends with   *)
(* and that leaves a stem of more than 2 characters (the term is longer    *)
(* than the suffix by more than 2); at most one suffix is stripped, and a  *)
(* term with no such suffix is left unchanged.                             *)
C22_StemLongerThanTwo ==
    Normalized =>
        FirstFitStripped(Strip(Lower(last.data.item_name)),
                         last.result.search_term, 2, 0)

(* a term in upper case with blanks around, ending with both ele and le:   *)
(* ele is stripped from the trimmed lower-case term, leaving a stem of 3   *)
C22_Witness ==
    /\ Normalized
    /\ last.data.item_name =
          <<" ", "M", "E", "L", "E", "L", "E", " ", " ">>
    /\ last.result.search_term = <<"m", "e", "l">>

(* a stem of 2 is too short: the term is left as it is *)
C22_WitnessShort ==
    /\ Normalized
    /\ last.data.item_name = <<"m", "e", "l", "e">>
    /\ last.result.search_term = <<"m", "e", "l", "e">>

(* the key of the id and the key of the name in the payload of a           *)
(* resolving intent, the table it resolves in, and its inactive rows       *)
IdKey(intent) ==
    CASE intent \in {"complete_task", "delete_task"} -> "task_id"
      [] intent = "remove_shopping_item" -> "item_id"
      [] OTHER -> "event_id"

NameKey(intent) ==
    CASE intent \in {"complete_task", "delete_task"} -> "task_title"
      [] intent = "remove_shopping_item" -> "item_name"
      [] OTHER -> "title"

Resolving ==
    {"complete_task", "delete_task", "remove_shopping_item",
     "cancel_calendar_event"}

TableOf(store, intent) ==
    CASE intent \in {"complete_task", "delete_task"} -> store.tasks
      [] intent = "remove_shopping_item" -> store.shopping
      [] OTHER -> store.events

NameOf(r, intent) ==
    CASE intent \in {"complete_task", "delete_task"} -> r.title
      [] intent = "remove_shopping_item" -> r.name
      [] OTHER -> r.title

Active(r, intent) ==
    CASE intent \in {"complete_task", "delete_task"} -> ~r.is_completed
      [] intent = "remove_shopping_item" -> ~r.is_purchased
      [] OTHER -> r.status = "scheduled"

NotFoundOf(intent) ==
    CASE intent \in {"complete_task", "delete_task"} -> TaskNotFound
      [] intent = "remove_shopping_item" -> ItemNotFound
      [] OTHER -> EventNotFound

(* the call resolved by name: an object with a name and no id of any kind *)
ResolvedByName ==
    /\ last.intent \in Resolving
    /\ IsObject(last.data)
    /\ ~TruthyInt(Get(last.data, IdKey(last.intent), NoneInt))
    /\ ~TruthyInt(Get(last.data, "google_event_id", NoneInt))
    /\ Truthy(Get(last.data, NameKey(last.intent), NoneStr))

(* the rows whose name contains the term, raw or normalized *)
Containing(rows, intent, term) ==
    {r \in rows : \/ ILikeContains(NameOf(r, intent), term)
                  \/ ILikeContains(NameOf(r, intent), NormalizeTerm(term))}

(* C23: resolution by name in complete_task, delete_task,                  *)
(* remove_shopping_item and cancel_calendar_event selects active entities  *)
(* only: when every entity whose name contains the term is inactive (a     *)
(* completed task, a purchased item, a cancelled event), the outcome is    *)
(* not-found and the store is unchanged.                                   *)
C23_OnlyActiveByName ==
    (/\ ResolvedByName
     /\ \A r \in Containing(TableOf(last.before.store, last.intent),
                            last.intent,
                            last.data[NameKey(last.intent)]) :
           ~Active(r, last.intent))
    => /\ ~last.result.success
       /\ StoreFault(last.result)
             \/ last.result.error = NotFoundOf(last.intent)
       /\ Store = last.before.store

(* delete_task by title deleted a task that was completed *)
C23_CompletedTaskDeleted ==
    /\ ResolvedByName
    /\ last.intent = "delete_task"
    /\ last.result.success
    /\ \E r \in last.before.store.tasks :
          /\ r.is_completed
          /\ r.id \notin Ids(tasks)

(* what the resolver of remove_shopping_item would choose from: the active *)
(* rows containing the normalized term and, when there is none, the active *)
(* rows containing the raw term                                            *)
FuzzyCandidates(rows, intent, term) ==
    LET active == {r \in rows : Active(r, intent)}
        stripped == {r \in active :
                        ILikeContains(NameOf(r, intent), NormalizeTerm(term))}
    IN  IF stripped # {} THEN stripped
        ELSE {r \in active : ILikeContains(NameOf(r, intent), term)}

(* the rows of the intent's table the call changed or deleted *)
Touched ==
    TableOf(last.before.store, last.intent) \ TableOf(Store, last.intent)

(* C24: complete_task, delete_task and cancel_calendar_event resolve a     *)
(* name as remove_shopping_item does: for every store content and every    *)
(* name, the entity they select, or the not-found outcome, is that of the  *)
(* resolver that searches with the suffix-stripped normalized term first   *)
(* and retries with the raw term.                                          *)
C24_SameResolver ==
    (/\ ResolvedByName
     /\ last.intent # "remove_shopping_item"
     /\ ~StoreFault(last.result))
    => LET found == FuzzyCandidates(TableOf(last.before.store, last.intent),
                                    last.intent,
                                    last.data[NameKey(last.intent)])
       IN  IF found = {}
           THEN /\ ~last.result.success
                /\ last.result.error = NotFoundOf(last.intent)
           ELSE /\ last.result.success
                /\ Touched \subseteq found

(* complete_task asked for merele does not find the active task mere, that *)
(* the normalized term mer is contained in                                 *)
C24_SuffixNotStripped ==
    /\ ResolvedByName
    /\ last.intent = "complete_task"
    /\ last.data.task_title = Wmerele
    /\ \E r \in last.before.store.tasks : r.title = Wmere /\ ~r.is_completed
    /\ last.result = Failure(TaskNotFound)

(* cancel_calendar_event asked for merele does not find the scheduled      *)
(* event mere                                                              *)
C24_EventSuffixNotStripped ==
    /\ ResolvedByName
    /\ last.intent = "cancel_calendar_event"
    /\ last.data.title = Wmerele
    /\ \E r \in last.before.store.events :
          r.title = Wmere /\ r.status = "scheduled"
    /\ last.result = Failure(EventNotFound)

(* the call resolved by an explicit id *)
ResolvedById ==
    /\ last.intent \in Resolving
    /\ IsObject(last.data)
    /\ TruthyInt(Get(last.data, IdKey(last.intent), NoneInt))

(* the active rows with the term in their name, raw or normalized *)
ActiveMatches ==
    {r \in Containing(TableOf(last.before.store, last.intent), last.intent,
                      last.data[NameKey(last.intent)]) :
        Active(r, last.intent)}

(* C25: when several active entities match a request by name the one with  *)
(* the smallest id is selected, so that the same request on the same store *)
(* always resolves to the same entity; and an explicit id resolves by      *)
(* that id alone, whatever name the payload carries besides.               *)
C25_SmallestIdAndIdFirst ==
    /\ (ResolvedByName /\ last.result.success) =>
          \A r \in Touched : \A m \in ActiveMatches : r.id <= m.id
    /\ (ResolvedById /\ ~StoreFault(last.result)) =>
          /\ last.result.success <=>
                last.data[IdKey(last.intent)] \in
                    Ids(TableOf(last.before.store, last.intent))
          /\ \A r \in Touched : r.id = last.data[IdKey(last.intent)]

(* two unpurchased items match the name and the one with the larger id is  *)
(* removed                                                                 *)
C25_LargerIdRemoved ==
    /\ ResolvedByName
    /\ last.intent = "remove_shopping_item"
    /\ last.result.success
    /\ \E r \in Touched, m \in ActiveMatches : m.id < r.id /\ m \in shopping

(* the payload carries an id and a name of another entity: the id decides *)
C25_IdBeforeName ==
    /\ ResolvedById
    /\ NameKey(last.intent) \in DOMAIN last.data
    /\ last.result.success
    /\ \E r \in Touched :
          /\ r.id = last.data[IdKey(last.intent)]
          /\ ~ILikeContains(NameOf(r, last.intent),
                            last.data[NameKey(last.intent)])
    /\ \E m \in TableOf(Store, last.intent) :
          /\ m.id # last.data[IdKey(last.intent)]
          /\ Active(m, last.intent)
          /\ ILikeContains(NameOf(m, last.intent),
                           last.data[NameKey(last.intent)])

(* C26: the reminder scheduler is stopped or started; start does nothing   *)
(* when started, stop nothing when stopped, and registering a reminder     *)
(* while stopped starts the scheduler first: after any sequence of start,  *)
(* stop, schedule and cancel the underlying scheduler runs exactly when    *)
(* the started flag is true, and no job is registered on a stopped         *)
(* scheduler.                                                              *)
C26_RunsWhenStarted ==
    /\ [](started \in BOOLEAN /\ running = started)
    /\ [][(jobs' \ jobs # {}) => (started' /\ running')]_vars

(* a meeting was scheduled while the scheduler was stopped, after an       *)
(* earlier meeting had started it and a stop had followed: the scheduler   *)
(* runs again and holds the new jobs                                       *)
C26_Witness ==
    /\ last.intent = "schedule_meeting"
    /\ last.before.scheduled_reminders # {}
    /\ ~last.before.started
    /\ jobs \ last.before.jobs # {}
    /\ started
    /\ running

(* the events that still have a reminder job registered, neither fired nor *)
(* cancelled                                                               *)
EventsWithJobs == {j.event_id : j \in jobs}

(* C27: after any sequence of schedule, cancel and job-firing events the   *)
(* pending-reminder count the service reports is the number of events      *)
(* that still have at least one reminder job registered: a job stops       *)
(* being counted when it is cancelled and when it has fired once.          *)
C27_CountIsPendingJobs ==
    pending_reminders = Cardinality(EventsWithJobs)

(* the only job of an event has fired and its reminder is out; the event   *)
(* is still counted                                                        *)
C27_CountedAfterFiring ==
    /\ \E e \in reminded :
          /\ e.event_id \in scheduled_reminders
          /\ e.event_id \notin EventsWithJobs
          /\ \A j \in inflight : j.event_id # e.event_id
    /\ pending_reminders > Cardinality(EventsWithJobs)

(* a meeting with no attendee and no organizer address: no job is          *)
(* registered and the event is counted                                     *)
C27_CountedWithoutJob ==
    /\ last.intent = "schedule_meeting"
    /\ last.result.success
    /\ SMTP_USER = <<>>
    /\ jobs = {}
    /\ inflight = {}
    /\ reminded = {}
    /\ pending_reminders = 1

(* C28: after every completed execute call each registered reminder job is *)
(* keyed by the remote event id of a persisted CalendarEvent row with      *)
(* status scheduled; whenever schedule_meeting returns success=false, the  *)
(* case of a failed local commit included, no reminder job of the request  *)
(* is registered and no notification email of it was sent.                 *)
C28_JobsHaveRows ==
    /\ \A j \in jobs :
          \E r \in events : /\ r.google_event_id = j.event_id
                            /\ r.status = "scheduled"
    /\ (last.intent = "schedule_meeting" /\ ~last.result.success) =>
          /\ jobs = last.before.jobs
          /\ last.sent = <<>>

(* the commit of the row failed after the scheduler had returned: the call *)
(* fails, the store has no row of the remote event, its reminder jobs are  *)
(* registered and its emails are delivered                                 *)
C28_JobsWithoutRow ==
    /\ last.intent = "schedule_meeting"
    /\ last.result = Failure("OperationalError")
    /\ last.inner.success
    /\ last.sent # <<>>
    /\ \E j \in jobs \ last.before.jobs :
          /\ j.event_id = last.inner.event_id
          /\ \A r \in events : r.google_event_id # j.event_id

(* C29: once cancel_calendar_event has returned success for an event no    *)
(* reminder email of that event is sent afterwards, however the cancel     *)
(* call interleaves with the background firing of the event's owner and    *)
(* attendee jobs; and each reminder job sends at most one email.           *)
C29_NoReminderAfterCancel ==
    \A e \in reminded : ~e.late /\ e.nth = 1

(* each reminder job sends at most one email *)
C29_OneEmailPerJob ==
    \A e \in reminded : e.nth = 1

(* a job was dispatched, the event was cancelled with its job already out  *)
(* of the job store, and the reminder went out after that                  *)
C29_ReminderAfterCancel ==
    \E e \in reminded :
        /\ e.late
        /\ IsCancelled(e.event_id)
        /\ e.event_id \notin scheduled_reminders

(* the scheduler returned its success dict *)
SchedulerSucceeded ==
    last.intent = "schedule_meeting" /\ last.inner.success

(* the reminder jobs the call registered *)
RegisteredJobs == jobs \ last.before.jobs

(* C30: the reminder_scheduled flag and the reminder_time that             *)
(* MeetingSchedulerService.schedule_meeting returns agree with what was    *)
(* done: the flag is true and the time non-null exactly when at least one  *)
(* reminder job was registered for the meeting, although the clock is read *)
(* separately for the decision and for each field and may advance between  *)
(* the reads.                                                              *)
C30_FieldsTellJobs ==
    SchedulerSucceeded =>
        /\ last.inner.reminder_scheduled <=> RegisteredJobs # {}
        /\ last.inner.reminder_time # NoneInt <=> RegisteredJobs # {}

(* the clock reached the reminder time between the decision and the read   *)
(* for the flag: the jobs are registered and the dict says no reminder     *)
C30_JobsButFlagFalse ==
    /\ SchedulerSucceeded
    /\ RegisteredJobs # {}
    /\ ~last.inner.reminder_scheduled
    /\ last.inner.reminder_time = NoneInt
    /\ last.reads[2] < last.reads[3]

(* the clock reached the reminder time between the two fields: a flag that *)
(* is true with a time that is null                                        *)
C30_FlagWithoutTime ==
    /\ SchedulerSucceeded
    /\ last.inner.reminder_scheduled
    /\ last.inner.reminder_time = NoneInt

(* nobody to remind: the clock stood still, no job was registered and the  *)
(* dict says a reminder is scheduled                                       *)
C30_FlagButNoJob ==
    /\ SchedulerSucceeded
    /\ last.reads[2] = last.reads[4]
    /\ RegisteredJobs = {}
    /\ last.inner.reminder_scheduled
    /\ last.inner.reminder_time # NoneInt

====
